---------------------------- MODULE Spec2Model ----------------------------
(***************************************************************************)
(* Model of the pump-clone bonding-curve program.                          *)
(*                                                                         *)
(*   Spec       the program of lib.rs (create_token, buy_tokens,           *)
(*              sell_tokens) together with the migration handler of        *)
(*              instructions/migrate_liquidity.rs, on one curve.           *)
(*   SpecCurve  the methods of state.rs BondingCurve (calculate_buy_price, *)
(*              calculate_sell_price, update_reserves_after_buy,           *)
(*              update_reserves_after_sell) on one BondingCurve value.     *)
(*   SpecPosition  the methods of state.rs UserPosition (update_after_buy, *)
(*              update_after_sell, calculate_unrealized_profit) on one     *)
(*              UserPosition value.                                        *)
(*   SpecUtils  the pure functions of utils.rs (calculate_fee,             *)
(*              safe_mul_div, validate_slippage, calculate_sqrt,           *)
(*              calculate_progress_percentage, BondingCurveState's         *)
(*              calculate_buy_price and calculate_sell_price), applied to  *)
(*              inputs from bounded sets.                                  *)
(*   SpecBuy    BuyTokens::buy_tokens of instructions/buy_tokens.rs on the *)
(*              accounts of one token launch.                              *)
(*                                                                         *)
(* Scale.  TLC computes with 32-bit integers, so the machine word is       *)
(* narrowed: u64 becomes 0..U64_MAX with U64_MAX = 2^30 - 1; a product of  *)
(* two u64 words always fits u128, as in the source.  SOL amounts are      *)
(* counted in units of 5*10^8 lamports (0.5 SOL) and token amounts in units *)
(* of 10^9 base units (10^3 tokens); the basis point arithmetic            *)
(* (100 / 10000) is kept exact.  The fixed-point scale 10^9 of last_price  *)
(* becomes PRICE_SCALE, chosen so that, as in the source, sol_amount *     *)
(* scale leaves the word at about 20 SOL.                                  *)
(***************************************************************************)
EXTENDS Integers, Sequences, FiniteSets, TLC

VARIABLES
    created,         \* lib.rs: create_token has initialised the curve account
    bonding_curve,   \* lib.rs: the BondingCurve account of the curve
    global_state,    \* lib.rs: the GlobalState account
    sol_vault,       \* lamports held by the curve's sol_vault
    token_vault,     \* tokens held by associated_bonding_curve
    user_tokens,     \* tokens held by each user's associated_user account
    last,            \* the last instruction: name, amount, outcome
    curve,           \* state.rs: one BondingCurve value
    res,             \* state.rs: the last quoted trade on curve
    clock,           \* Clock::get()?.unix_timestamp
    steps,           \* number of state.rs calls issued (bounds the exploration)
    position,        \* state.rs: one UserPosition value
    pos_res,         \* state.rs: the last call on position
    util,            \* utils.rs: the last function call and its result
    launch,          \* instructions/buy_tokens.rs: the accounts of BuyTokens
    ix,              \* instructions/buy_tokens.rs: the last call and its outcome
    markets          \* lib.rs: the curves of two mints and the GlobalState they share

vars == << created, bonding_curve, global_state, sol_vault, token_vault,
           user_tokens, last, curve, res, clock, steps, position, pos_res,
           util, launch, ix, markets >>

libVars == << created, bonding_curve, global_state, sol_vault, token_vault,
              user_tokens, last >>

curveVars == << curve, res, clock, steps >>

posVars == << position, pos_res >>

utilVars == << util >>

ixVars == << launch, ix >>

-----------------------------------------------------------------------------
(* Bounds of the model *)

U64_MAX == 1073741823

MaxVolume == 400

MaxSteps == 3

MaxClock == 2

\* Successful buy_tokens calls of instructions/buy_tokens.rs explored
MaxTransactions == 3

\* u32::MAX of the narrowed word
U32_MAX == 65535

\* u64::MAX of the word of the utils.rs functions
UTIL_U64_MAX == 32767

None == 0 - 1

(* Program constants, in model units *)

INITIAL_VIRTUAL_TOKEN_RESERVES == 1073000

INITIAL_VIRTUAL_SOL_RESERVES == 60

INITIAL_REAL_TOKEN_RESERVES == 793100

FUNDING_GOAL == 170

TOKEN_TOTAL_SUPPLY == 1000000

CREATOR_FEE_BASIS_POINTS == 100

PLATFORM_FEE_BASIS_POINTS == 100

BPS_DENOMINATOR == 10000

\* utils.rs BASIS_POINTS_DENOMINATOR
BASIS_POINTS_DENOMINATOR == 10000

\* u16::MAX, the range of fee_basis_points
U16_MAX == 65535

\* instructions/buy_tokens.rs: the smallest and the largest sol_amount of a buy
\* (0.001 SOL and 10 SOL) and the fixed-point scale 10^9 of prices
MIN_BUY_SOL_AMOUNT == 100

MAX_BUY_SOL_AMOUNT == 10000

SLOPE_SCALE == 1000

\* utils.rs: the default reserves of BondingCurveState, on the word of utils.rs;
\* as in the source their product does not fit the word
VIRTUAL_SOL_RESERVES == 300

VIRTUAL_TOKEN_RESERVES == 10730

REAL_TOKEN_RESERVES == 7931

PRICE_SCALE == 25000000

MIGRATION_TOKEN_PERCENTAGE == 20

CURVE_COMPLETE_SOL_AMOUNT == 170

CURVE_COMPLETE_TOKEN_AMOUNT == 800000

Users == {"u1", "u2"}

-----------------------------------------------------------------------------
(* Checked arithmetic of the Rust integer types: None on overflow,         *)
(* underflow or division by zero.                                          *)

checked_add(a, b) == IF a > U64_MAX - b THEN None ELSE a + b

checked_sub(a, b) == IF a < b THEN None ELSE a - b

checked_mul(a, b) == IF b # 0 /\ a > U64_MAX \div b THEN None ELSE a * b

checked_div(a, b) == IF b = 0 THEN None ELSE a \div b

\* u128 checked_mul of two widened u64 words: (2^64-1)^2 < 2^128, never None
checked_mul_u128(a, b) == a * b

\* `x as u64` on a u128: keeps the low word
as_u64(x) == x % (U64_MAX + 1)

-----------------------------------------------------------------------------
(* lib.rs: the program on one curve.  An instruction that returns Err      *)
(* aborts the transaction: the runtime discards every account change it    *)
(* made, so a failed instruction leaves the accounts as they were.         *)

\* The accounts an instruction works on
Accounts == [ bonding_curve |-> bonding_curve, global_state |-> global_state,
              sol_vault |-> sol_vault, token_vault |-> token_vault,
              user_tokens |-> user_tokens ]

Failed(acc, e) == [ err |-> e, acc |-> acc ]

\* calculate_buy_amount(sol_amount, virtual_sol_reserves, virtual_token_reserves):
\* the constant-product quote, tokens_out = T - floor(S*T / (S + sol_in))
calculate_buy_amount(sol_amount, sol_res, token_res) ==
    LET new_sol == checked_add(sol_res, sol_amount)
        k == checked_mul_u128(sol_res, token_res)
        new_tok == IF new_sol = None \/ new_sol = 0 THEN None ELSE k \div new_sol
    IN  IF sol_amount = 0 THEN [ err |-> "InvalidAmount", val |-> 0 ]
        ELSE IF new_sol = None THEN [ err |-> "Overflow", val |-> 0 ]
        ELSE IF token_res - new_tok = 0 THEN [ err |-> "InsufficientLiquidity", val |-> 0 ]
        ELSE [ err |-> "Ok", val |-> token_res - new_tok ]

\* calculate_sell_amount(token_amount, virtual_token_reserves, virtual_sol_reserves):
\* the constant-product quote, sol_out = S - floor(S*T / (T + tokens_in))
calculate_sell_amount(token_amount, token_res, sol_res) ==
    LET new_tok == checked_add(token_res, token_amount)
        k == checked_mul_u128(sol_res, token_res)
        new_sol == IF new_tok = None \/ new_tok = 0 THEN None ELSE k \div new_tok
    IN  IF token_amount = 0 THEN [ err |-> "InvalidAmount", val |-> 0 ]
        ELSE IF new_tok = None THEN [ err |-> "Overflow", val |-> 0 ]
        ELSE IF sol_res - new_sol = 0 THEN [ err |-> "InsufficientLiquidity", val |-> 0 ]
        ELSE [ err |-> "Ok", val |-> sol_res - new_sol ]

\* calculate_slippage(sol_amount, token_amount, bonding_curve): its body is not
\* part of the sources; the outcome (None for Err, else basis points) is an input
calculate_slippage(sol_amount, token_amount, bc, outcome) == outcome

\* Mutant of fee_of: the basis points taken as tenths of a percent
fee_of_per_mille(amount, bps) ==
    LET m == checked_mul(amount, bps)
    IN  IF m = None THEN None ELSE checked_div(m, 1000)

\* fee = amount * bps / 10000 in u64, None on overflow (lib.rs 130-134)
fee_of(amount, bps) ==
    LET m == checked_mul(amount, bps)
    IN  IF m = None THEN None ELSE checked_div(m, BPS_DENOMINATOR)

\* Mutant of net_of: no fee is taken off the amount
net_of_gross(amount, creator_fee, platform_fee) == amount

\* net = amount - creator_fee - platform_fee (lib.rs 142-146)
net_of(amount, creator_fee, platform_fee) ==
    LET a == checked_sub(amount, creator_fee)
    IN  IF a = None THEN None ELSE checked_sub(a, platform_fee)

\* Mutant of goal_reached: the goal compared with > instead of >=
goal_reached_strict(real_sol) == real_sol > FUNDING_GOAL

\* The funding-goal check of buy_tokens (lib.rs 230)
goal_reached(real_sol) == real_sol >= FUNDING_GOAL

\* Mutant of buy_precheck: the complete check left out
buy_precheck_no_complete(acc, sol_amount) ==
    IF acc.global_state.is_paused THEN "ProgramPaused"
    ELSE IF ~(sol_amount > 0) THEN "InvalidAmount"
    ELSE "Ok"

\* The preconditions of buy_tokens in the order of lib.rs 113-115
buy_precheck(acc, sol_amount) ==
    IF acc.global_state.is_paused THEN "ProgramPaused"
    ELSE IF ~(sol_amount > 0) THEN "InvalidAmount"
    ELSE IF acc.bonding_curve.complete THEN "BondingCurveComplete"
    ELSE "Ok"

\* The preconditions of sell_tokens in the order of lib.rs 264-266
sell_precheck(acc, token_amount) ==
    IF acc.global_state.is_paused THEN "ProgramPaused"
    ELSE IF ~(token_amount > 0) THEN "InvalidAmount"
    ELSE IF acc.bonding_curve.complete THEN "BondingCurveComplete"
    ELSE "Ok"

\* Mutant of buy_tokens: the tokens sent to the buyer are not taken off
\* real_token_reserves
buy_tokens_real_tokens_kept(acc, buyer, sol_amount, max_slippage_bps, slip) ==
    LET bc == acc.bonding_curve
        pre == buy_precheck(acc, sol_amount)
        q == calculate_buy_amount(sol_amount, bc.virtual_sol_reserves,
                                  bc.virtual_token_reserves)
        token_amount == q.val
        slippage_bps == calculate_slippage(sol_amount, token_amount, bc, slip)
        creator_fee == fee_of(sol_amount, CREATOR_FEE_BASIS_POINTS)
        platform_fee == fee_of(sol_amount, PLATFORM_FEE_BASIS_POINTS)
        net_sol_amount == net_of(sol_amount, creator_fee, platform_fee)
        vs == checked_add(bc.virtual_sol_reserves, net_sol_amount)
        vt == checked_sub(bc.virtual_token_reserves, token_amount)
        rs == checked_add(bc.real_sol_reserves, net_sol_amount)
        rt == bc.real_token_reserves
        vol == checked_add(acc.global_state.total_volume, sol_amount)
    IN  IF pre # "Ok" THEN Failed(acc, pre)
        ELSE IF q.err # "Ok" THEN Failed(acc, q.err)
        ELSE IF ~(token_amount > 0) THEN Failed(acc, "InsufficientOutput")
        ELSE IF slippage_bps = None THEN Failed(acc, "SlippageError")
        ELSE IF ~(slippage_bps <= max_slippage_bps) THEN Failed(acc, "SlippageExceeded")
        ELSE IF creator_fee = None \/ platform_fee = None \/ net_sol_amount = None
             THEN Failed(acc, "Overflow")
        \* token::transfer from associated_bonding_curve to associated_user
        ELSE IF acc.token_vault < token_amount THEN Failed(acc, "TokenTransferFailed")
        ELSE IF vs = None \/ vt = None \/ rs = None \/ rt = None
             THEN Failed(acc, "Overflow")
        ELSE IF vol = None THEN Failed(acc, "Overflow")
        ELSE [ err |-> "Ok",
               acc |-> [ bonding_curve |->
                           [ bc EXCEPT !.virtual_sol_reserves = vs,
                                       !.virtual_token_reserves = vt,
                                       !.real_sol_reserves = rs,
                                       !.real_token_reserves = rt,
                                       !.complete = IF goal_reached(rs) THEN TRUE
                                                    ELSE bc.complete ],
                         global_state |->
                           [ acc.global_state EXCEPT !.total_volume = vol ],
                         sol_vault |-> acc.sol_vault + net_sol_amount,
                         token_vault |-> acc.token_vault - token_amount,
                         user_tokens |->
                           [ acc.user_tokens EXCEPT ![buyer] = @ + token_amount ] ] ]

\* buy_tokens(ctx, sol_amount, max_slippage_bps) for the buyer of ctx
buy_tokens(acc, buyer, sol_amount, max_slippage_bps, slip) ==
    LET bc == acc.bonding_curve
        pre == buy_precheck(acc, sol_amount)
        q == calculate_buy_amount(sol_amount, bc.virtual_sol_reserves,
                                  bc.virtual_token_reserves)
        token_amount == q.val
        slippage_bps == calculate_slippage(sol_amount, token_amount, bc, slip)
        creator_fee == fee_of(sol_amount, CREATOR_FEE_BASIS_POINTS)
        platform_fee == fee_of(sol_amount, PLATFORM_FEE_BASIS_POINTS)
        net_sol_amount == net_of(sol_amount, creator_fee, platform_fee)
        vs == checked_add(bc.virtual_sol_reserves, net_sol_amount)
        vt == checked_sub(bc.virtual_token_reserves, token_amount)
        rs == checked_add(bc.real_sol_reserves, net_sol_amount)
        rt == checked_sub(bc.real_token_reserves, token_amount)
        vol == checked_add(acc.global_state.total_volume, sol_amount)
    IN  IF pre # "Ok" THEN Failed(acc, pre)
        ELSE IF q.err # "Ok" THEN Failed(acc, q.err)
        ELSE IF ~(token_amount > 0) THEN Failed(acc, "InsufficientOutput")
        ELSE IF slippage_bps = None THEN Failed(acc, "SlippageError")
        ELSE IF ~(slippage_bps <= max_slippage_bps) THEN Failed(acc, "SlippageExceeded")
        ELSE IF creator_fee = None \/ platform_fee = None \/ net_sol_amount = None
             THEN Failed(acc, "Overflow")
        \* token::transfer from associated_bonding_curve to associated_user
        ELSE IF acc.token_vault < token_amount THEN Failed(acc, "TokenTransferFailed")
        ELSE IF vs = None \/ vt = None \/ rs = None \/ rt = None
             THEN Failed(acc, "Overflow")
        ELSE IF vol = None THEN Failed(acc, "Overflow")
        ELSE [ err |-> "Ok",
               acc |-> [ bonding_curve |->
                           [ bc EXCEPT !.virtual_sol_reserves = vs,
                                       !.virtual_token_reserves = vt,
                                       !.real_sol_reserves = rs,
                                       !.real_token_reserves = rt,
                                       !.complete = IF goal_reached(rs) THEN TRUE
                                                    ELSE bc.complete ],
                         global_state |->
                           [ acc.global_state EXCEPT !.total_volume = vol ],
                         sol_vault |-> acc.sol_vault + net_sol_amount,
                         token_vault |-> acc.token_vault - token_amount,
                         user_tokens |->
                           [ acc.user_tokens EXCEPT ![buyer] = @ + token_amount ] ] ]

\* Mutant of sell_tokens: virtual_sol_reserves falls by the net amount paid out
sell_tokens_virtual_net(acc, seller, token_amount, min_sol_output) ==
    LET bc == acc.bonding_curve
        pre == sell_precheck(acc, token_amount)
        q == calculate_sell_amount(token_amount, bc.virtual_token_reserves,
                                   bc.virtual_sol_reserves)
        sol_amount == q.val
        creator_fee == fee_of(sol_amount, CREATOR_FEE_BASIS_POINTS)
        platform_fee == fee_of(sol_amount, PLATFORM_FEE_BASIS_POINTS)
        net_sol_amount == net_of(sol_amount, creator_fee, platform_fee)
        vs == checked_sub(bc.virtual_sol_reserves, net_sol_amount)
        vt == checked_add(bc.virtual_token_reserves, token_amount)
        rs == checked_sub(bc.real_sol_reserves, sol_amount)
        rt == checked_add(bc.real_token_reserves, token_amount)
        vol == checked_add(acc.global_state.total_volume, sol_amount)
    IN  IF pre # "Ok" THEN Failed(acc, pre)
        ELSE IF q.err # "Ok" THEN Failed(acc, q.err)
        ELSE IF ~(sol_amount >= min_sol_output) THEN Failed(acc, "InsufficientOutput")
        ELSE IF creator_fee = None \/ platform_fee = None \/ net_sol_amount = None
             THEN Failed(acc, "Overflow")
        \* token::transfer from associated_user to associated_bonding_curve
        ELSE IF acc.user_tokens[seller] < token_amount
             THEN Failed(acc, "TokenTransferFailed")
        \* the lamport debit of sol_vault
        ELSE IF acc.sol_vault < net_sol_amount THEN Failed(acc, "LamportUnderflow")
        ELSE IF vs = None \/ vt = None \/ rs = None \/ rt = None
             THEN Failed(acc, "Overflow")
        ELSE IF vol = None THEN Failed(acc, "Overflow")
        ELSE [ err |-> "Ok",
               acc |-> [ bonding_curve |->
                           [ bc EXCEPT !.virtual_sol_reserves = vs,
                                       !.virtual_token_reserves = vt,
                                       !.real_sol_reserves = rs,
                                       !.real_token_reserves = rt ],
                         global_state |->
                           [ acc.global_state EXCEPT !.total_volume = vol ],
                         sol_vault |-> acc.sol_vault - net_sol_amount,
                         token_vault |-> acc.token_vault + token_amount,
                         user_tokens |->
                           [ acc.user_tokens EXCEPT ![seller] = @ - token_amount ] ] ]

\* sell_tokens(ctx, token_amount, min_sol_output) for the seller of ctx
sell_tokens(acc, seller, token_amount, min_sol_output) ==
    LET bc == acc.bonding_curve
        pre == sell_precheck(acc, token_amount)
        q == calculate_sell_amount(token_amount, bc.virtual_token_reserves,
                                   bc.virtual_sol_reserves)
        sol_amount == q.val
        creator_fee == fee_of(sol_amount, CREATOR_FEE_BASIS_POINTS)
        platform_fee == fee_of(sol_amount, PLATFORM_FEE_BASIS_POINTS)
        net_sol_amount == net_of(sol_amount, creator_fee, platform_fee)
        vs == checked_sub(bc.virtual_sol_reserves, sol_amount)
        vt == checked_add(bc.virtual_token_reserves, token_amount)
        rs == checked_sub(bc.real_sol_reserves, sol_amount)
        rt == checked_add(bc.real_token_reserves, token_amount)
        vol == checked_add(acc.global_state.total_volume, sol_amount)
    IN  IF pre # "Ok" THEN Failed(acc, pre)
        ELSE IF q.err # "Ok" THEN Failed(acc, q.err)
        ELSE IF ~(sol_amount >= min_sol_output) THEN Failed(acc, "InsufficientOutput")
        ELSE IF creator_fee = None \/ platform_fee = None \/ net_sol_amount = None
             THEN Failed(acc, "Overflow")
        \* token::transfer from associated_user to associated_bonding_curve
        ELSE IF acc.user_tokens[seller] < token_amount
             THEN Failed(acc, "TokenTransferFailed")
        \* the lamport debit of sol_vault
        ELSE IF acc.sol_vault < net_sol_amount THEN Failed(acc, "LamportUnderflow")
        ELSE IF vs = None \/ vt = None \/ rs = None \/ rt = None
             THEN Failed(acc, "Overflow")
        ELSE IF vol = None THEN Failed(acc, "Overflow")
        ELSE [ err |-> "Ok",
               acc |-> [ bonding_curve |->
                           [ bc EXCEPT !.virtual_sol_reserves = vs,
                                       !.virtual_token_reserves = vt,
                                       !.real_sol_reserves = rs,
                                       !.real_token_reserves = rt ],
                         global_state |->
                           [ acc.global_state EXCEPT !.total_volume = vol ],
                         sol_vault |-> acc.sol_vault - net_sol_amount,
                         token_vault |-> acc.token_vault + token_amount,
                         user_tokens |->
                           [ acc.user_tokens EXCEPT ![seller] = @ - token_amount ] ] ]

\* create_token(ctx, name, symbol, uri, initial_buy) by the creator of ctx;
\* lens = <<name.len(), symbol.len(), uri.len()>>
create_token(acc, creator, lens, initial_buy, slip) ==
    LET bc == [ acc.bonding_curve EXCEPT
                  !.virtual_token_reserves = INITIAL_VIRTUAL_TOKEN_RESERVES,
                  !.virtual_sol_reserves = INITIAL_VIRTUAL_SOL_RESERVES,
                  !.real_token_reserves = INITIAL_REAL_TOKEN_RESERVES,
                  !.real_sol_reserves = 0,
                  !.token_total_supply = TOKEN_TOTAL_SUPPLY,
                  !.complete = FALSE ]
        n == checked_add(acc.global_state.total_tokens_created, 1)
        acc1 == [ acc EXCEPT !.bonding_curve = bc,
                             !.global_state.total_tokens_created = n ]
    IN  IF acc.global_state.is_paused THEN Failed(acc, "ProgramPaused")
        ELSE IF ~(lens[1] <= 32) THEN Failed(acc, "NameTooLong")
        ELSE IF ~(lens[2] <= 10) THEN Failed(acc, "SymbolTooLong")
        ELSE IF ~(lens[3] <= 200) THEN Failed(acc, "UriTooLong")
        ELSE IF n = None THEN Failed(acc, "Overflow")
        ELSE IF initial_buy > 0
             THEN LET b == buy_tokens(acc1, creator, initial_buy, U64_MAX, slip)
                  IN  IF b.err # "Ok" THEN Failed(acc, b.err) ELSE b
        ELSE [ err |-> "Ok", acc |-> acc1 ]

\* Mutant of migrate_precheck: the migrated check left out
migrate_precheck_no_migrated(bc) ==
    IF ~bc.complete THEN "CurveNotComplete"
    ELSE IF ~(bc.token_total_supply >= CURVE_COMPLETE_TOKEN_AMOUNT)
         THEN "InsufficientTokensForMigration"
    ELSE "Ok"

\* migrate_liquidity.rs: the constraints of MigrateLiquidity (14-15) and the
\* require! lines of handler (253-258); is_complete is the curve's complete flag
migrate_precheck(bc) ==
    IF ~bc.complete THEN "CurveNotComplete"
    ELSE IF ~(~bc.migrated) THEN "AlreadyMigrated"
    ELSE IF ~(bc.token_total_supply >= CURVE_COMPLETE_TOKEN_AMOUNT)
         THEN "InsufficientTokensForMigration"
    ELSE "Ok"

\* What a successful handler records on the curve: the migrated flag
mark_migrated(bc) == [ bc EXCEPT !.migrated = TRUE ]

\* Mutant of handler: the whole token balance of the curve is moved
handler_moves_all_tokens(acc, cpi_ok) ==
    LET bc == acc.bonding_curve
        pre == migrate_precheck(bc)
        token_balance == acc.token_vault
        sol_balance == acc.sol_vault
        m == checked_mul(bc.token_total_supply, MIGRATION_TOKEN_PERCENTAGE)
        migration_token_amount == IF m = None THEN None ELSE checked_div(m, 100)
        migration_sol_amount == CURVE_COMPLETE_SOL_AMOUNT
    IN  IF pre # "Ok" THEN Failed(acc, pre)
        ELSE IF ~(token_balance > 0) THEN Failed(acc, "InsufficientTokenBalance")
        ELSE IF ~(sol_balance > 0) THEN Failed(acc, "InsufficientSolBalance")
        ELSE IF migration_token_amount = None THEN Failed(acc, "MathOverflow")
        ELSE IF ~(token_balance >= migration_token_amount)
             THEN Failed(acc, "InsufficientTokensForMigration")
        ELSE IF ~(sol_balance >= migration_sol_amount)
             THEN Failed(acc, "InsufficientSolForMigration")
        ELSE IF ~cpi_ok THEN Failed(acc, "RaydiumInitializeFailed")
        ELSE [ err |-> "Ok",
               acc |-> [ acc EXCEPT
                           !.bonding_curve = mark_migrated(bc),
                           !.token_vault = 0,
                           !.sol_vault = sol_balance - migration_sol_amount ] ]

\* handler(ctx) of migrate_liquidity.rs; cpi_ok: the Raydium initialize call succeeds
handler(acc, cpi_ok) ==
    LET bc == acc.bonding_curve
        pre == migrate_precheck(bc)
        token_balance == acc.token_vault
        sol_balance == acc.sol_vault
        m == checked_mul(bc.token_total_supply, MIGRATION_TOKEN_PERCENTAGE)
        migration_token_amount == IF m = None THEN None ELSE checked_div(m, 100)
        migration_sol_amount == CURVE_COMPLETE_SOL_AMOUNT
    IN  IF pre # "Ok" THEN Failed(acc, pre)
        ELSE IF ~(token_balance > 0) THEN Failed(acc, "InsufficientTokenBalance")
        ELSE IF ~(sol_balance > 0) THEN Failed(acc, "InsufficientSolBalance")
        ELSE IF migration_token_amount = None THEN Failed(acc, "MathOverflow")
        ELSE IF ~(token_balance >= migration_token_amount)
             THEN Failed(acc, "InsufficientTokensForMigration")
        ELSE IF ~(sol_balance >= migration_sol_amount)
             THEN Failed(acc, "InsufficientSolForMigration")
        ELSE IF ~cpi_ok THEN Failed(acc, "RaydiumInitializeFailed")
        ELSE [ err |-> "Ok",
               acc |-> [ acc EXCEPT
                           !.bonding_curve = mark_migrated(bc),
                           !.token_vault = token_balance - migration_token_amount,
                           !.sol_vault = sol_balance - migration_sol_amount ] ]

-----------------------------------------------------------------------------
(* Inputs of the instructions *)

BuyAmounts == {0, 71, 99, 100}

SellAmounts == {0, 300000}

MinSolOutputs == {0, 90, 113}

MaxSlippages == {500, U64_MAX}

SlippageOutcomes == {None, 0, 600}

InitialBuys == {0, 99}

NameLens == {<<32, 10, 200>>, <<33, 10, 200>>}

\* A curve account before create_token: zero-initialised
EmptyCurve == [ virtual_sol_reserves |-> 0, virtual_token_reserves |-> 0,
                real_sol_reserves |-> 0, real_token_reserves |-> 0,
                token_total_supply |-> 0, complete |-> FALSE, migrated |-> FALSE ]

\* limit: the max_slippage_bps of a buy, the min_sol_output of a sell
NoCall == [ op |-> "none", amount |-> 0, limit |-> 0, err |-> "Ok" ]

\* initialize_global_state (lib.rs 23-40) has run; the curve's token account
\* holds the minted supply
LibInit ==
    /\ created = FALSE
    /\ bonding_curve = EmptyCurve
    /\ global_state = [ is_paused |-> FALSE, total_volume |-> 0,
                        total_tokens_created |-> 0 ]
    /\ sol_vault = 0
    /\ token_vault = TOKEN_TOTAL_SUPPLY
    /\ user_tokens = [ u \in Users |-> 0 ]
    /\ last = NoCall

\* Mutant of account_is_uninitialized: the account may be initialised again
account_is_uninitialized_always(flag) == TRUE

\* `init` on the bonding_curve account: create_token runs once per curve
account_is_uninitialized(flag) == ~flag

\* The accounts after an instruction: its changes when it returned Ok, none
\* when it returned Err
Commit(r, op, user, amount, limit) ==
    /\ bonding_curve' = r.acc.bonding_curve
    /\ global_state' = r.acc.global_state
    /\ sol_vault' = r.acc.sol_vault
    /\ token_vault' = r.acc.token_vault
    /\ user_tokens' = r.acc.user_tokens
    /\ last' = [ op |-> op, amount |-> amount, limit |-> limit, err |-> r.err ]

CreateToken ==
    /\ account_is_uninitialized(created)
    /\ \E creator \in Users, lens \in NameLens, initial_buy \in InitialBuys,
          slip \in SlippageOutcomes :
         LET r == create_token(Accounts, creator, lens, initial_buy, slip)
         IN  /\ Commit(r, "create_token", creator, initial_buy, 0)
             /\ created' = (r.err = "Ok")
    /\ UNCHANGED << curveVars, posVars, utilVars, ixVars, markets >>

BuyTokens ==
    /\ created
    /\ global_state.total_volume < MaxVolume
    /\ \E buyer \in Users, sol_amount \in BuyAmounts,
          max_slippage_bps \in MaxSlippages, slip \in SlippageOutcomes :
         Commit(buy_tokens(Accounts, buyer, sol_amount, max_slippage_bps, slip),
                "buy_tokens", buyer, sol_amount, max_slippage_bps)
    /\ UNCHANGED << created, curveVars, posVars, utilVars, ixVars, markets >>

SellTokens ==
    /\ created
    /\ global_state.total_volume < MaxVolume
    /\ \E seller \in Users, token_amount \in SellAmounts,
          min_sol_output \in MinSolOutputs :
         Commit(sell_tokens(Accounts, seller, token_amount, min_sol_output),
                "sell_tokens", seller, token_amount, min_sol_output)
    /\ UNCHANGED << created, curveVars, posVars, utilVars, ixVars, markets >>

MigrateLiquidity ==
    /\ created
    /\ \E cpi_ok \in BOOLEAN :
         Commit(handler(Accounts, cpi_ok), "migrate_liquidity", "none", 0, 0)
    /\ UNCHANGED << created, curveVars, posVars, utilVars, ixVars, markets >>

-----------------------------------------------------------------------------
(* state.rs: the methods of BondingCurve on one value.  A method that      *)
(* returns Err has assigned the fields it reached before the failing step. *)

\* Mutant of calculate_buy_price: the real reserves left out of the quote
calculate_buy_price_virtual_only(c, sol_amount) ==
    LET new_sol_reserves == checked_add(c.virtual_sol_reserves, sol_amount)
        k == checked_mul_u128(c.virtual_sol_reserves, c.virtual_token_reserves)
        new_token_reserves == as_u64(k \div new_sol_reserves)
        tokens_out == checked_sub(c.virtual_token_reserves, new_token_reserves)
    IN  IF ~(~c.complete) THEN [ err |-> "BondingCurveComplete", val |-> 0 ]
        ELSE IF ~(sol_amount > 0) THEN [ err |-> "InvalidAmount", val |-> 0 ]
        ELSE IF new_sol_reserves = None THEN [ err |-> "MathOverflow", val |-> 0 ]
        ELSE IF tokens_out = None THEN [ err |-> "InsufficientLiquidity", val |-> 0 ]
        ELSE IF ~(tokens_out > 0) THEN [ err |-> "InsufficientLiquidity", val |-> 0 ]
        ELSE [ err |-> "Ok", val |-> tokens_out ]

\* BondingCurve::calculate_buy_price(&self, sol_amount)
calculate_buy_price(c, sol_amount) ==
    LET virtual_sol_reserves == checked_add(c.virtual_sol_reserves, c.real_sol_reserves)
        virtual_token_reserves ==
            checked_add(c.virtual_token_reserves, c.real_token_reserves)
        new_sol_reserves == checked_add(virtual_sol_reserves, sol_amount)
        k == checked_mul_u128(virtual_sol_reserves, virtual_token_reserves)
        new_token_reserves == as_u64(k \div new_sol_reserves)
        tokens_out == checked_sub(virtual_token_reserves, new_token_reserves)
    IN  IF ~(~c.complete) THEN [ err |-> "BondingCurveComplete", val |-> 0 ]
        ELSE IF ~(sol_amount > 0) THEN [ err |-> "InvalidAmount", val |-> 0 ]
        ELSE IF virtual_sol_reserves = None THEN [ err |-> "MathOverflow", val |-> 0 ]
        ELSE IF virtual_token_reserves = None THEN [ err |-> "MathOverflow", val |-> 0 ]
        ELSE IF new_sol_reserves = None THEN [ err |-> "MathOverflow", val |-> 0 ]
        ELSE IF k = None THEN [ err |-> "MathOverflow", val |-> 0 ]
        ELSE IF new_sol_reserves = 0 THEN [ err |-> "MathOverflow", val |-> 0 ]
        ELSE IF tokens_out = None THEN [ err |-> "InsufficientLiquidity", val |-> 0 ]
        ELSE IF ~(tokens_out > 0) THEN [ err |-> "InsufficientLiquidity", val |-> 0 ]
        ELSE [ err |-> "Ok", val |-> tokens_out ]

\* Mutant of calculate_sell_price: the real reserves left out of the quote
calculate_sell_price_virtual_only(c, token_amount) ==
    LET new_token_reserves == checked_add(c.virtual_token_reserves, token_amount)
        k == checked_mul_u128(c.virtual_sol_reserves, c.virtual_token_reserves)
        new_sol_reserves == as_u64(k \div new_token_reserves)
        sol_out == checked_sub(c.virtual_sol_reserves, new_sol_reserves)
    IN  IF ~(~c.complete) THEN [ err |-> "BondingCurveComplete", val |-> 0 ]
        ELSE IF ~(token_amount > 0) THEN [ err |-> "InvalidAmount", val |-> 0 ]
        ELSE IF new_token_reserves = None THEN [ err |-> "MathOverflow", val |-> 0 ]
        ELSE IF sol_out = None THEN [ err |-> "InsufficientLiquidity", val |-> 0 ]
        ELSE IF ~(sol_out > 0) THEN [ err |-> "InsufficientLiquidity", val |-> 0 ]
        ELSE [ err |-> "Ok", val |-> sol_out ]

\* BondingCurve::calculate_sell_price(&self, token_amount)
calculate_sell_price(c, token_amount) ==
    LET virtual_sol_reserves == checked_add(c.virtual_sol_reserves, c.real_sol_reserves)
        virtual_token_reserves ==
            checked_add(c.virtual_token_reserves, c.real_token_reserves)
        new_token_reserves == checked_add(virtual_token_reserves, token_amount)
        k == checked_mul_u128(virtual_sol_reserves, virtual_token_reserves)
        new_sol_reserves == as_u64(k \div new_token_reserves)
        sol_out == checked_sub(virtual_sol_reserves, new_sol_reserves)
    IN  IF ~(~c.complete) THEN [ err |-> "BondingCurveComplete", val |-> 0 ]
        ELSE IF ~(token_amount > 0) THEN [ err |-> "InvalidAmount", val |-> 0 ]
        ELSE IF virtual_sol_reserves = None THEN [ err |-> "MathOverflow", val |-> 0 ]
        ELSE IF virtual_token_reserves = None THEN [ err |-> "MathOverflow", val |-> 0 ]
        ELSE IF new_token_reserves = None THEN [ err |-> "MathOverflow", val |-> 0 ]
        ELSE IF k = None THEN [ err |-> "MathOverflow", val |-> 0 ]
        ELSE IF new_token_reserves = 0 THEN [ err |-> "MathOverflow", val |-> 0 ]
        ELSE IF sol_out = None THEN [ err |-> "InsufficientLiquidity", val |-> 0 ]
        ELSE IF ~(sol_out > 0) THEN [ err |-> "InsufficientLiquidity", val |-> 0 ]
        ELSE [ err |-> "Ok", val |-> sol_out ]

\* Mutant of trade_price: the quotient inverted, tokens per SOL
trade_price_inverted(sol_amount, token_amount) ==
    LET m == checked_mul(token_amount, PRICE_SCALE)
    IN  IF m = None THEN None ELSE checked_div(m, sol_amount)

\* last_price = sol_amount.checked_mul(10^9).and_then(|x| x.checked_div(token_amount))
trade_price(sol_amount, token_amount) ==
    LET m == checked_mul(sol_amount, PRICE_SCALE)
    IN  IF m = None THEN None ELSE checked_div(m, token_amount)

\* Mutant of finish_update: the sums sol_reserves and token_reserves are left as
\* they were
finish_update_stale_sums(c1, sol_amount, token_amount, now) ==
    LET lp == trade_price(sol_amount, token_amount)
        c4 == [ c1 EXCEPT !.last_price = lp ]
    IN  IF lp = None THEN [ err |-> "MathOverflow", c |-> c1 ]
        ELSE [ err |-> "Ok", c |-> [ c4 EXCEPT !.updated_at = now ] ]

\* The tail shared by both updates: sol_reserves, token_reserves, last_price,
\* updated_at, assigned in this order from the curve c1 with its real reserves set
finish_update(c1, sol_amount, token_amount, now) ==
    LET sr == checked_add(c1.virtual_sol_reserves, c1.real_sol_reserves)
        c2 == [ c1 EXCEPT !.sol_reserves = sr ]
        tr == checked_add(c2.virtual_token_reserves, c2.real_token_reserves)
        c3 == [ c2 EXCEPT !.token_reserves = tr ]
        lp == trade_price(sol_amount, token_amount)
        c4 == [ c3 EXCEPT !.last_price = lp ]
    IN  IF sr = None THEN [ err |-> "MathOverflow", c |-> c1 ]
        ELSE IF tr = None THEN [ err |-> "MathOverflow", c |-> c2 ]
        ELSE IF lp = None THEN [ err |-> "MathOverflow", c |-> c3 ]
        ELSE [ err |-> "Ok", c |-> [ c4 EXCEPT !.updated_at = now ] ]

\* Mutant of update_reserves_after_buy: the tokens sold stay in the reserve
update_reserves_after_buy_keeps_tokens(c, sol_amount, token_amount, now) ==
    LET rs == checked_add(c.real_sol_reserves, sol_amount)
        c1 == [ c EXCEPT !.real_sol_reserves = rs ]
    IN  IF rs = None THEN [ err |-> "MathOverflow", c |-> c ]
        ELSE finish_update(c1, sol_amount, token_amount, now)

\* BondingCurve::update_reserves_after_buy(&mut self, sol_amount, token_amount)
update_reserves_after_buy(c, sol_amount, token_amount, now) ==
    LET rs == checked_add(c.real_sol_reserves, sol_amount)
        c1 == [ c EXCEPT !.real_sol_reserves = rs ]
        rt == checked_sub(c1.real_token_reserves, token_amount)
        c2 == [ c1 EXCEPT !.real_token_reserves = rt ]
    IN  IF rs = None THEN [ err |-> "MathOverflow", c |-> c ]
        ELSE IF rt = None THEN [ err |-> "MathOverflow", c |-> c1 ]
        ELSE finish_update(c2, sol_amount, token_amount, now)

\* BondingCurve::update_reserves_after_sell(&mut self, sol_amount, token_amount)
update_reserves_after_sell(c, sol_amount, token_amount, now) ==
    LET rs == checked_sub(c.real_sol_reserves, sol_amount)
        c1 == [ c EXCEPT !.real_sol_reserves = rs ]
        rt == checked_add(c1.real_token_reserves, token_amount)
        c2 == [ c1 EXCEPT !.real_token_reserves = rt ]
    IN  IF rs = None THEN [ err |-> "MathOverflow", c |-> c ]
        ELSE IF rt = None THEN [ err |-> "MathOverflow", c |-> c1 ]
        ELSE finish_update(c2, sol_amount, token_amount, now)

\* Effective reserves of a curve value
EffSol(c) == c.virtual_sol_reserves + c.real_sol_reserves

EffTok(c) == c.virtual_token_reserves + c.real_token_reserves

-----------------------------------------------------------------------------
(* Inputs of the state.rs trades *)

CurveBuyAmounts == {0, 1, 5, 20, 50}

CurveSellAmounts == {0, 6, 100000}

\* The reserves of the curve values tried: the launch constants, the
\* caller-chosen virtual reserves of instructions/create_token.rs (small, and
\* at the end of the word), and values with an empty side (the fields are pub)
InitialReserves ==
    { << INITIAL_VIRTUAL_SOL_RESERVES, INITIAL_VIRTUAL_TOKEN_RESERVES,
         INITIAL_REAL_TOKEN_RESERVES >>,
      << 30, 20, 20 >>,
      << U64_MAX - 5, 1, 0 >>,
      << 1, 1, U64_MAX - 6 >>,
      << 7, 0, 1 >>,
      << 0, 5, 5 >> }

NewCurve(r, complete) ==
    [ sol_reserves |-> r[1], token_reserves |-> r[2] + r[3],
      virtual_sol_reserves |-> r[1], virtual_token_reserves |-> r[2],
      real_sol_reserves |-> 0, real_token_reserves |-> r[3],
      complete |-> complete, total_supply |-> TOKEN_TOTAL_SUPPLY,
      initial_virtual_sol_reserves |-> r[1],
      initial_virtual_token_reserves |-> r[2],
      initial_real_token_reserves |-> r[3],
      k_constant |-> r[1] * (r[2] + r[3]),
      last_price |-> 0, updated_at |-> 0 ]

NoTrade == [ op |-> "none", arg |-> 0, quote |-> [ err |-> "Ok", val |-> 0 ],
             upd |-> "none", pre |-> NewCurve(<<0, 0, 0>>, FALSE),
             prev |-> << "none", 0, "none" >> ]

CurveIdle ==
    /\ curve = NewCurve(<<0, 0, 0>>, FALSE)
    /\ res = NoTrade
    /\ clock = 0
    /\ steps = 0

CurveInit ==
    /\ \E r \in InitialReserves, complete \in BOOLEAN : curve = NewCurve(r, complete)
    /\ res = NoTrade
    /\ clock = 0
    /\ steps = 0

LibIdle ==
    /\ created = FALSE
    /\ bonding_curve = EmptyCurve
    /\ global_state = [ is_paused |-> FALSE, total_volume |-> 0,
                        total_tokens_created |-> 0 ]
    /\ sol_vault = 0
    /\ token_vault = 0
    /\ user_tokens = [ u \in Users |-> 0 ]
    /\ last = NoCall

\* The last trade, as the next one remembers it
Prev == << res.op, res.arg, res.upd >>

\* A quoted buy: calculate_buy_price, then update_reserves_after_buy with its result
QuotedBuy ==
    /\ steps < MaxSteps
    /\ \E sol_amount \in CurveBuyAmounts :
         LET q == calculate_buy_price(curve, sol_amount)
             u == update_reserves_after_buy(curve, sol_amount, q.val, clock)
         IN  /\ curve' = IF q.err = "Ok" THEN u.c ELSE curve
             /\ res' = [ op |-> "buy", arg |-> sol_amount, quote |-> q,
                         upd |-> IF q.err = "Ok" THEN u.err ELSE "none",
                         pre |-> curve, prev |-> Prev ]
    /\ steps' = steps + 1
    /\ UNCHANGED << clock, libVars, posVars, utilVars, ixVars, markets >>

\* A quoted sell: calculate_sell_price, then update_reserves_after_sell with its result
QuotedSell ==
    /\ steps < MaxSteps
    /\ \E token_amount \in CurveSellAmounts :
         LET q == calculate_sell_price(curve, token_amount)
             u == update_reserves_after_sell(curve, q.val, token_amount, clock)
         IN  /\ curve' = IF q.err = "Ok" THEN u.c ELSE curve
             /\ res' = [ op |-> "sell", arg |-> token_amount, quote |-> q,
                         upd |-> IF q.err = "Ok" THEN u.err ELSE "none",
                         pre |-> curve, prev |-> Prev ]
    /\ steps' = steps + 1
    /\ UNCHANGED << clock, libVars, posVars, utilVars, ixVars, markets >>

\* Time passes between transactions
Tick ==
    /\ clock < MaxClock
    /\ clock' = clock + 1
    /\ UNCHANGED << curve, res, steps, libVars, posVars, utilVars, ixVars, markets >>

\* The amounts of the buys of a funding run
FundingBuyAmounts == {1, 2, 3, 5, 10, 20, 42, 50}

\* The curve as created at launch, before any trade
LaunchCurve ==
    NewCurve(<< INITIAL_VIRTUAL_SOL_RESERVES, INITIAL_VIRTUAL_TOKEN_RESERVES,
                INITIAL_REAL_TOKEN_RESERVES >>, FALSE)

FundingInit ==
    /\ curve = LaunchCurve
    /\ res = NoTrade
    /\ clock = 0
    /\ steps = 0

\* A successful buy of a funding run: calculate_buy_price returns Ok and
\* update_reserves_after_buy, called with its result, returns Ok
FundingBuy ==
    /\ \E sol_amount \in FundingBuyAmounts :
         LET q == calculate_buy_price(curve, sol_amount)
             u == update_reserves_after_buy(curve, sol_amount, q.val, clock)
         IN  /\ q.err = "Ok"
             /\ u.err = "Ok"
             /\ curve' = u.c
             /\ res' = [ op |-> "buy", arg |-> sol_amount, quote |-> q,
                         upd |-> u.err, pre |-> curve, prev |-> Prev ]
    /\ UNCHANGED << steps, clock, libVars, posVars, utilVars, ixVars, markets >>

-----------------------------------------------------------------------------
(* state.rs: the methods of UserPosition on one value.  As for BondingCurve, *)
(* a method that returns Err has assigned the fields it reached before the  *)
(* failing step.  i64 is the signed word of the same width as u64.          *)

I64_MAX == U64_MAX \div 2

I64_MIN == 0 - I64_MAX - 1

\* The None of a checked i64 operation (-1 is a value of i64)
NoneI64 == I64_MIN - 1

\* `x as i64` on a u64: the same bits, read as two's complement
as_i64(x) == IF x > I64_MAX THEN x - (U64_MAX + 1) ELSE x

checked_sub_i64(a, b) ==
    IF a - b > I64_MAX \/ a - b < I64_MIN THEN NoneI64 ELSE a - b

checked_add_i64(a, b) ==
    IF a + b > I64_MAX \/ a + b < I64_MIN THEN NoneI64 ELSE a + b

checked_add_u32(a, b) == IF a > U32_MAX - b THEN None ELSE a + b

\* a.checked_mul(b).and_then(|x| x.checked_div(c)) in u64
mul_then_div(a, b, c) ==
    LET m == checked_mul(a, b)
    IN  IF m = None THEN None ELSE checked_div(m, c)

\* Mutant of update_after_buy: average_buy_price taken from this buy alone
update_after_buy_last_price(p, sol_amount, token_amount, price, now) ==
    LET p1 == IF p.first_buy_timestamp = 0
              THEN [ p EXCEPT !.first_buy_timestamp = now ] ELSE p
        total_sol_invested == checked_add(p1.sol_invested, sol_amount)
        total_tokens_bought == checked_add(p1.tokens_bought, token_amount)
        avg == mul_then_div(sol_amount, PRICE_SCALE, token_amount)
        p2 == [ p1 EXCEPT !.average_buy_price = avg ]
        p3 == [ p2 EXCEPT !.sol_invested = total_sol_invested,
                          !.tokens_bought = total_tokens_bought ]
        tb == checked_add(p3.token_balance, token_amount)
        p4 == [ p3 EXCEPT !.token_balance = tb, !.last_trade_timestamp = now ]
        tc == checked_add_u32(p4.trade_count, 1)
    IN  IF total_sol_invested = None THEN [ err |-> "MathOverflow", p |-> p1 ]
        ELSE IF total_tokens_bought = None THEN [ err |-> "MathOverflow", p |-> p1 ]
        ELSE IF avg = None THEN [ err |-> "MathOverflow", p |-> p1 ]
        ELSE IF tb = None THEN [ err |-> "MathOverflow", p |-> p3 ]
        ELSE IF tc = None THEN [ err |-> "MathOverflow", p |-> p4 ]
        ELSE [ err |-> "Ok", p |-> [ p4 EXCEPT !.trade_count = tc ] ]

\* UserPosition::update_after_buy(&mut self, sol_amount, token_amount, price);
\* now is Clock::get()?.unix_timestamp
update_after_buy(p, sol_amount, token_amount, price, now) ==
    LET p1 == IF p.first_buy_timestamp = 0
              THEN [ p EXCEPT !.first_buy_timestamp = now ] ELSE p
        total_sol_invested == checked_add(p1.sol_invested, sol_amount)
        total_tokens_bought == checked_add(p1.tokens_bought, token_amount)
        avg == mul_then_div(total_sol_invested, PRICE_SCALE, total_tokens_bought)
        p2 == [ p1 EXCEPT !.average_buy_price = avg ]
        p3 == [ p2 EXCEPT !.sol_invested = total_sol_invested,
                          !.tokens_bought = total_tokens_bought ]
        tb == checked_add(p3.token_balance, token_amount)
        p4 == [ p3 EXCEPT !.token_balance = tb, !.last_trade_timestamp = now ]
        tc == checked_add_u32(p4.trade_count, 1)
    IN  IF total_sol_invested = None THEN [ err |-> "MathOverflow", p |-> p1 ]
        ELSE IF total_tokens_bought = None THEN [ err |-> "MathOverflow", p |-> p1 ]
        ELSE IF avg = None THEN [ err |-> "MathOverflow", p |-> p1 ]
        ELSE IF tb = None THEN [ err |-> "MathOverflow", p |-> p3 ]
        ELSE IF tc = None THEN [ err |-> "MathOverflow", p |-> p4 ]
        ELSE [ err |-> "Ok", p |-> [ p4 EXCEPT !.trade_count = tc ] ]

\* Mutant of update_after_sell: the sale rebases the average buy price
update_after_sell_rebases(p, sol_amount, token_amount, price, now) ==
    LET ts == checked_add(p.tokens_sold, token_amount)
        p1 == [ p EXCEPT !.tokens_sold = ts ]
        tb == checked_sub(p1.token_balance, token_amount)
        p2 == [ p1 EXCEPT !.token_balance = tb, !.average_buy_price = price ]
    IN  IF ts = None THEN [ err |-> "MathOverflow", p |-> p ]
        ELSE IF tb = None THEN [ err |-> "InsufficientBalance", p |-> p1 ]
        ELSE [ err |-> "Ok", p |-> p2 ]

\* UserPosition::update_after_sell(&mut self, sol_amount, token_amount, price)
update_after_sell(p, sol_amount, token_amount, price, now) ==
    LET ts == checked_add(p.tokens_sold, token_amount)
        p1 == [ p EXCEPT !.tokens_sold = ts ]
        tb == checked_sub(p1.token_balance, token_amount)
        p2 == [ p1 EXCEPT !.token_balance = tb ]
        cost_basis == mul_then_div(p2.average_buy_price, token_amount, PRICE_SCALE)
        profit == checked_sub_i64(as_i64(sol_amount), as_i64(cost_basis))
        rp == checked_add_i64(p2.realized_profit, profit)
        p3 == [ p2 EXCEPT !.realized_profit = rp, !.last_trade_timestamp = now ]
        tc == checked_add_u32(p3.trade_count, 1)
    IN  IF ts = None THEN [ err |-> "MathOverflow", p |-> p ]
        ELSE IF tb = None THEN [ err |-> "InsufficientBalance", p |-> p1 ]
        ELSE IF cost_basis = None THEN [ err |-> "MathOverflow", p |-> p2 ]
        ELSE IF profit = NoneI64 THEN [ err |-> "MathOverflow", p |-> p2 ]
        ELSE IF rp = NoneI64 THEN [ err |-> "MathOverflow", p |-> p2 ]
        ELSE IF tc = None THEN [ err |-> "MathOverflow", p |-> p3 ]
        ELSE [ err |-> "Ok", p |-> [ p3 EXCEPT !.trade_count = tc ] ]

\* The end of calculate_unrealized_profit, which the source file stops short
\* of: unrealized_profit = current_value - cost_basis, signed, and Ok
store_unrealized_profit(p, current_value, cost_basis) ==
    LET d == checked_sub_i64(as_i64(current_value), as_i64(cost_basis))
    IN  IF d = NoneI64 THEN [ err |-> "MathOverflow", p |-> p ]
        ELSE [ err |-> "Ok", p |-> [ p EXCEPT !.unrealized_profit = d ] ]

\* Mutant of calculate_unrealized_profit: an empty position also clears
\* realized_profit
calculate_unrealized_profit_clears(p, current_price) ==
    LET current_value == mul_then_div(current_price, p.token_balance, PRICE_SCALE)
        cost_basis == mul_then_div(p.average_buy_price, p.token_balance, PRICE_SCALE)
    IN  IF p.token_balance = 0
        THEN [ err |-> "Ok", p |-> [ p EXCEPT !.unrealized_profit = 0,
                                              !.realized_profit = 0 ] ]
        ELSE IF current_value = None THEN [ err |-> "MathOverflow", p |-> p ]
        ELSE IF cost_basis = None THEN [ err |-> "MathOverflow", p |-> p ]
        ELSE store_unrealized_profit(p, current_value, cost_basis)

\* UserPosition::calculate_unrealized_profit(&mut self, current_price)
calculate_unrealized_profit(p, current_price) ==
    LET current_value == mul_then_div(current_price, p.token_balance, PRICE_SCALE)
        cost_basis == mul_then_div(p.average_buy_price, p.token_balance, PRICE_SCALE)
    IN  IF p.token_balance = 0
        THEN [ err |-> "Ok", p |-> [ p EXCEPT !.unrealized_profit = 0 ] ]
        ELSE IF current_value = None THEN [ err |-> "MathOverflow", p |-> p ]
        ELSE IF cost_basis = None THEN [ err |-> "MathOverflow", p |-> p ]
        ELSE store_unrealized_profit(p, current_value, cost_basis)

-----------------------------------------------------------------------------
(* Inputs of the UserPosition calls *)

PosBuySol == {0, 1, 5, 50}

PosBuyTokens == {0, 3, U64_MAX}

PosSellSol == {0, 2, I64_MAX + 1}

PosSellTokens == {0, 3, 7}

PosPrices == {0, 2 * PRICE_SCALE, U64_MAX}

\* A new UserPosition account: every counter zero
NewPosition ==
    [ token_balance |-> 0, sol_invested |-> 0, tokens_bought |-> 0,
      tokens_sold |-> 0, realized_profit |-> 0, unrealized_profit |-> 0,
      average_buy_price |-> 0, first_buy_timestamp |-> 0,
      last_trade_timestamp |-> 0, trade_count |-> 0 ]

NoPosCall == [ op |-> "none", sol_amount |-> 0, token_amount |-> 0,
               err |-> "Ok", pre |-> NewPosition,
               prev |-> << "none", 0, "Ok", 0 >> ]

PosIdle ==
    /\ position = NewPosition
    /\ pos_res = NoPosCall

\* The call before the last one: its name, token_amount, outcome and the
\* token_balance it started from
PosPrev == << pos_res.op, pos_res.token_amount, pos_res.err,
              pos_res.pre.token_balance >>

\* Clock::get()?.unix_timestamp at the call: a positive Unix time
unix_timestamp == clock + 1

UpdateAfterBuy ==
    /\ steps < MaxSteps
    /\ \E sol_amount \in PosBuySol, token_amount \in PosBuyTokens :
         LET r == update_after_buy(position, sol_amount, token_amount, 0,
                                   unix_timestamp)
         IN  /\ position' = r.p
             /\ pos_res' = [ op |-> "update_after_buy", sol_amount |-> sol_amount,
                             token_amount |-> token_amount, err |-> r.err,
                             pre |-> position, prev |-> PosPrev ]
    /\ steps' = steps + 1
    /\ UNCHANGED << curve, res, clock, libVars, utilVars, ixVars, markets >>

UpdateAfterSell ==
    /\ steps < MaxSteps
    /\ \E sol_amount \in PosSellSol, token_amount \in PosSellTokens,
          price \in PosPrices :
         LET r == update_after_sell(position, sol_amount, token_amount, price,
                                    unix_timestamp)
         IN  /\ position' = r.p
             /\ pos_res' = [ op |-> "update_after_sell", sol_amount |-> sol_amount,
                             token_amount |-> token_amount, err |-> r.err,
                             pre |-> position, prev |-> PosPrev ]
    /\ steps' = steps + 1
    /\ UNCHANGED << curve, res, clock, libVars, utilVars, ixVars, markets >>

CalculateUnrealizedProfit ==
    /\ steps < MaxSteps
    /\ \E current_price \in PosPrices :
         LET r == calculate_unrealized_profit(position, current_price)
         IN  /\ position' = r.p
             /\ pos_res' = [ op |-> "calculate_unrealized_profit",
                             sol_amount |-> 0, token_amount |-> 0, err |-> r.err,
                             pre |-> position, prev |-> PosPrev ]
    /\ steps' = steps + 1
    /\ UNCHANGED << curve, res, clock, libVars, utilVars, ixVars, markets >>

-----------------------------------------------------------------------------
(* utils.rs: pure functions.  Here the u64 word is narrowed to               *)
(* 0..UTIL_U64_MAX, half the width of the word above, so that the u128       *)
(* product of two words (and of a word and a u16) is an integer of the      *)
(* model checker and is computed exactly, as the widened product is in the  *)
(* source.                                                                  *)

\* (a as u128).checked_mul(b as u128): the exact product, never None
widening_mul(a, b) == a * b

\* `x as u64` on a u128 in utils.rs: keeps the low word
util_as_u64(x) == x % (UTIL_U64_MAX + 1)

\* calculate_fee(amount: u64, fee_basis_points: u16)
calculate_fee(amount, fee_basis_points) ==
    LET fee == widening_mul(amount, fee_basis_points)
                 \div BASIS_POINTS_DENOMINATOR
    IN  [ err |-> "Ok", val |-> util_as_u64(fee) ]

\* Mutant of safe_mul_div: the range check on the quotient left out
safe_mul_div_unchecked(a, b, c) ==
    IF c = 0 THEN [ err |-> "DivisionByZero", val |-> 0 ]
    ELSE LET result == widening_mul(a, b) \div c
         IN  [ err |-> "Ok", val |-> util_as_u64(result) ]

\* safe_mul_div(a: u64, b: u64, c: u64)
safe_mul_div(a, b, c) ==
    IF c = 0 THEN [ err |-> "DivisionByZero", val |-> 0 ]
    ELSE LET result == widening_mul(a, b) \div c
         IN  IF result > UTIL_U64_MAX THEN [ err |-> "MathOverflow", val |-> 0 ]
             ELSE [ err |-> "Ok", val |-> util_as_u64(result) ]

\* u64 checked arithmetic on the word of utils.rs
util_checked_mul(a, b) == IF a * b > UTIL_U64_MAX THEN None ELSE a * b

util_checked_add(a, b) == IF a + b > UTIL_U64_MAX THEN None ELSE a + b

util_checked_sub(a, b) == IF a < b THEN None ELSE a - b

\* calculate_amount_after_fee(amount: u64, fee_basis_points: u16)
calculate_amount_after_fee(amount, fee_basis_points) ==
    LET fee == calculate_fee(amount, fee_basis_points)
        rest == util_checked_sub(amount, fee.val)
    IN  IF fee.err # "Ok" THEN fee
        ELSE IF rest = None THEN [ err |-> "MathOverflow", val |-> 0 ]
        ELSE [ err |-> "Ok", val |-> rest ]

\* Mutant of validate_slippage: an actual amount equal to the minimum rejected
validate_slippage_strict(expected_amount, actual_amount, slippage_bps) ==
    LET min_amount == calculate_amount_after_fee(expected_amount, slippage_bps)
    IN  IF min_amount.err # "Ok" THEN [ err |-> min_amount.err, val |-> 0 ]
        ELSE IF actual_amount <= min_amount.val
        THEN [ err |-> "SlippageExceeded", val |-> 0 ]
        ELSE [ err |-> "Ok", val |-> 0 ]

\* validate_slippage(expected_amount: u64, actual_amount: u64, slippage_bps: u16)
validate_slippage(expected_amount, actual_amount, slippage_bps) ==
    LET min_amount == calculate_amount_after_fee(expected_amount, slippage_bps)
    IN  IF min_amount.err # "Ok" THEN [ err |-> min_amount.err, val |-> 0 ]
        ELSE IF actual_amount < min_amount.val
        THEN [ err |-> "SlippageExceeded", val |-> 0 ]
        ELSE [ err |-> "Ok", val |-> 0 ]

\* The unchecked `+` of calculate_sqrt on u64: a build with overflow checks
\* panics when the sum leaves the word, a build without them keeps the low word
sqrt_add(a, b, overflow_checks) ==
    IF a + b <= UTIL_U64_MAX THEN a + b
    ELSE IF overflow_checks THEN None
    ELSE util_as_u64(a + b)

\* The loop of calculate_sqrt: while y < x { x = y; y = (x + value / x) / 2 }
RECURSIVE sqrt_loop(_, _, _, _)
sqrt_loop(value, x, y, overflow_checks) ==
    IF ~(y < x) THEN [ err |-> "Ok", val |-> x ]
    ELSE IF y = 0 THEN [ err |-> "Panic", val |-> 0 ]
    ELSE LET sum == sqrt_add(y, value \div y, overflow_checks)
         IN  IF sum = None THEN [ err |-> "Panic", val |-> 0 ]
             ELSE sqrt_loop(value, y, sum \div 2, overflow_checks)

\* calculate_sqrt(value: u64) -> u64
calculate_sqrt(value, overflow_checks) ==
    IF value = 0 THEN [ err |-> "Ok", val |-> 0 ]
    ELSE LET sum == sqrt_add(value, 1, overflow_checks)
         IN  IF sum = None THEN [ err |-> "Panic", val |-> 0 ]
             ELSE sqrt_loop(value, value, sum \div 2, overflow_checks)

\* `percentage as u16` on a u128: keeps the low 16 bits
as_u16(x) == x % (U16_MAX + 1)

Min(a, b) == IF a < b THEN a ELSE b

\* calculate_progress_percentage(current_sol: u64, target_sol: u64) -> u16
calculate_progress_percentage(current_sol, target_sol) ==
    IF target_sol = 0 THEN 0
    ELSE LET percentage == widening_mul(current_sol, 10000) \div target_sol
         IN  Min(as_u16(percentage), 10000)

\* BondingCurveState::calculate_buy_price(&self, token_amount: u64)
BondingCurveState_calculate_buy_price(self, token_amount) ==
    LET k == util_checked_mul(self.virtual_sol_reserves, self.virtual_token_reserves)
        new_token_reserves == util_checked_sub(self.virtual_token_reserves, token_amount)
        new_sol_reserves == k \div new_token_reserves
        sol_amount == util_checked_sub(new_sol_reserves, self.virtual_sol_reserves)
    IN  IF token_amount = 0 THEN [ err |-> "InvalidTokenAmount", val |-> 0 ]
        ELSE IF token_amount > self.virtual_token_reserves
        THEN [ err |-> "InsufficientLiquidity", val |-> 0 ]
        ELSE IF k = None THEN [ err |-> "MathOverflow", val |-> 0 ]
        ELSE IF new_token_reserves = None THEN [ err |-> "MathOverflow", val |-> 0 ]
        ELSE IF new_token_reserves = 0 THEN [ err |-> "DivisionByZero", val |-> 0 ]
        ELSE IF sol_amount = None THEN [ err |-> "MathOverflow", val |-> 0 ]
        ELSE [ err |-> "Ok", val |-> sol_amount ]

\* BondingCurveState::calculate_sell_price(&self, token_amount: u64)
BondingCurveState_calculate_sell_price(self, token_amount) ==
    LET k == util_checked_mul(self.virtual_sol_reserves, self.virtual_token_reserves)
        new_token_reserves == util_checked_add(self.virtual_token_reserves, token_amount)
        new_sol_reserves == k \div new_token_reserves
        sol_amount == util_checked_sub(self.virtual_sol_reserves, new_sol_reserves)
    IN  IF token_amount = 0 THEN [ err |-> "InvalidTokenAmount", val |-> 0 ]
        ELSE IF k = None THEN [ err |-> "MathOverflow", val |-> 0 ]
        ELSE IF new_token_reserves = None THEN [ err |-> "MathOverflow", val |-> 0 ]
        ELSE IF new_token_reserves = 0 THEN [ err |-> "DivisionByZero", val |-> 0 ]
        ELSE IF sol_amount = None THEN [ err |-> "MathOverflow", val |-> 0 ]
        ELSE [ err |-> "Ok", val |-> sol_amount ]

\* impl Default for BondingCurveState
BondingCurveState_default ==
    [ virtual_sol_reserves |-> VIRTUAL_SOL_RESERVES,
      virtual_token_reserves |-> VIRTUAL_TOKEN_RESERVES,
      real_sol_reserves |-> 0,
      real_token_reserves |-> REAL_TOKEN_RESERVES ]

-----------------------------------------------------------------------------
(* Inputs of the utils.rs functions *)

FeeAmounts == {0, 1, 99, 100, 10000, UTIL_U64_MAX \div 2, UTIL_U64_MAX}

FeeBps == {0, 1, 100, 250, 10000, 20000, U16_MAX}

MulDivWords == {0, 1, 7, 1000, UTIL_U64_MAX - 1, UTIL_U64_MAX}

MulDivDivisors == {0, 1, 3, 10000, UTIL_U64_MAX}

NoUtilCall == [ fn |-> "none", a |-> 0, b |-> 0, c |-> 0,
                out |-> [ err |-> "Ok", val |-> 0 ] ]

UtilIdle == util = NoUtilCall

CalculateFee ==
    /\ \E amount \in FeeAmounts, fee_basis_points \in FeeBps :
         util' = [ fn |-> "calculate_fee", a |-> amount, b |-> fee_basis_points,
                   c |-> BASIS_POINTS_DENOMINATOR,
                   out |-> calculate_fee(amount, fee_basis_points) ]
    /\ UNCHANGED << libVars, curveVars, posVars, ixVars, markets >>

SafeMulDiv ==
    /\ \E a \in MulDivWords, b \in MulDivWords, c \in MulDivDivisors :
         util' = [ fn |-> "safe_mul_div", a |-> a, b |-> b, c |-> c,
                   out |-> safe_mul_div(a, b, c) ]
    /\ UNCHANGED << libVars, curveVars, posVars, ixVars, markets >>

SlippageAmounts == {0, 1, 9700, 9800, 9801, 9900, 10000, UTIL_U64_MAX}

SlippageBps == {0, 200, 10000, 20000}

SqrtValues ==
    {0, 1, 2, 3, 4, 8, 9, 15, 16, 17, 99, 100, 1023, 1024, 10000,
     UTIL_U64_MAX \div 2, UTIL_U64_MAX - 1, UTIL_U64_MAX}

ProgressCurrent == {0, 1, 50, 99, 100, 150, 700, UTIL_U64_MAX}

ProgressTarget == {0, 1, 100, UTIL_U64_MAX}

\* BondingCurveState values: the default one and one whose product fits the word
UtilCurves ==
    { BondingCurveState_default,
      [ BondingCurveState_default EXCEPT !.virtual_sol_reserves = 30,
                                         !.virtual_token_reserves = 1000 ] }

UtilTokenAmounts ==
    {0, 1, 100, 999, 1000, VIRTUAL_TOKEN_RESERVES - 1, VIRTUAL_TOKEN_RESERVES,
     UTIL_U64_MAX}

ValidateSlippage ==
    /\ \E expected_amount \in SlippageAmounts, actual_amount \in SlippageAmounts,
          slippage_bps \in SlippageBps :
         util' = [ fn |-> "validate_slippage", a |-> expected_amount,
                   b |-> actual_amount, c |-> slippage_bps,
                   out |-> validate_slippage(expected_amount, actual_amount,
                                             slippage_bps) ]
    /\ UNCHANGED << libVars, curveVars, posVars, ixVars, markets >>

CalculateSqrt ==
    /\ \E value \in SqrtValues, overflow_checks \in BOOLEAN :
         util' = [ fn |-> "calculate_sqrt", a |-> value,
                   b |-> IF overflow_checks THEN 1 ELSE 0, c |-> 0,
                   out |-> calculate_sqrt(value, overflow_checks) ]
    /\ UNCHANGED << libVars, curveVars, posVars, ixVars, markets >>

CalculateProgressPercentage ==
    /\ \E current_sol \in ProgressCurrent, target_sol \in ProgressTarget :
         util' = [ fn |-> "calculate_progress_percentage", a |-> current_sol,
                   b |-> target_sol, c |-> 0,
                   out |-> [ err |-> "Ok",
                             val |-> calculate_progress_percentage(current_sol,
                                                                   target_sol) ] ]
    /\ UNCHANGED << libVars, curveVars, posVars, ixVars, markets >>

UtilsCalculateBuyPrice ==
    /\ \E self \in UtilCurves, token_amount \in UtilTokenAmounts :
         util' = [ fn |-> "BondingCurveState::calculate_buy_price",
                   a |-> token_amount, b |-> self.virtual_sol_reserves,
                   c |-> self.virtual_token_reserves,
                   out |-> BondingCurveState_calculate_buy_price(self, token_amount) ]
    /\ UNCHANGED << libVars, curveVars, posVars, ixVars, markets >>

UtilsCalculateSellPrice ==
    /\ \E self \in UtilCurves, token_amount \in UtilTokenAmounts :
         util' = [ fn |-> "BondingCurveState::calculate_sell_price",
                   a |-> token_amount, b |-> self.virtual_sol_reserves,
                   c |-> self.virtual_token_reserves,
                   out |-> BondingCurveState_calculate_sell_price(self, token_amount) ]
    /\ UNCHANGED << libVars, curveVars, posVars, ixVars, markets >>

-----------------------------------------------------------------------------
(* instructions/buy_tokens.rs: BuyTokens::buy_tokens on the accounts of one  *)
(* token launch.  An instruction that returns Err changes no account.        *)

\* Mutant of slippage_ok: the minimum output is not enforced
slippage_ok_always(tokens_to_mint, min_tokens_out) == TRUE

\* require!(tokens_to_mint >= min_tokens_out, SlippageExceeded)
slippage_ok(tokens_to_mint, min_tokens_out) == tokens_to_mint >= min_tokens_out

\* Mutant of within_max_supply: the supply cap is not enforced
within_max_supply_always(new_total_supply, max_supply) == TRUE

\* require!(new_total_supply <= bonding_curve.max_supply, ExceedsMaxSupply)
within_max_supply(new_total_supply, max_supply) == new_total_supply <= max_supply

\* calculate_current_price: base_price + current_supply * slope / 10^9, None
\* standing for MathOverflow
calculate_current_price(bc) ==
    LET scaled == mul_then_div(bc.current_supply, bc.slope, SLOPE_SCALE)
    IN  IF scaled = None THEN None ELSE checked_add(bc.base_price, scaled)

\* calculate_tokens_out: sol_amount * 10^9 / current_price in u128, None
\* standing for MathOverflow
calculate_tokens_out(bc, sol_amount) ==
    LET current_price == calculate_current_price(bc)
        tokens_out == checked_mul_u128(sol_amount, SLOPE_SCALE) \div current_price
    IN  IF current_price = None THEN None
        ELSE IF current_price = 0 THEN None
        ELSE IF tokens_out > U64_MAX THEN None
        ELSE tokens_out

IxFail(acc, e) == [ err |-> e, acc |-> acc ]

\* BuyTokens::buy_tokens(&mut self, sol_amount, min_tokens_out), after the
\* constraints of the BuyTokens accounts
ix_buy_tokens(acc, sol_amount, min_tokens_out) ==
    LET bc == acc.bonding_curve
        tl == acc.token_launch
        fee_amount == mul_then_div(sol_amount, 100, 10000)
        sol_after_fee == checked_sub(sol_amount, fee_amount)
        tokens_to_mint == calculate_tokens_out(bc, sol_after_fee)
        new_total_supply == checked_add(bc.current_supply, tokens_to_mint)
        sol_reserves == checked_add(bc.sol_reserves, sol_after_fee)
        bc1 == [ bc EXCEPT !.current_supply = new_total_supply,
                           !.sol_reserves = sol_reserves ]
        last_price == calculate_current_price(bc1)
        total_transactions == checked_add(bc.total_transactions, 1)
        bc2 == [ bc1 EXCEPT !.last_price = last_price,
                            !.total_transactions = total_transactions ]
        total_raised == checked_add(tl.total_raised, sol_after_fee)
        holder_count == checked_add(tl.holder_count, 1)
        tl1 == [ tl EXCEPT !.total_raised = total_raised,
                           !.holder_count = holder_count,
                           !.ready_for_migration =
                               IF bc2.current_supply >= bc2.migration_threshold
                               THEN TRUE ELSE @ ]
    IN  IF ~tl.is_active THEN IxFail(acc, "LaunchNotActive")
        ELSE IF tl.migrated THEN IxFail(acc, "AlreadyMigrated")
        ELSE IF ~(sol_amount > 0) THEN IxFail(acc, "InvalidAmount")
        ELSE IF ~(sol_amount >= MIN_BUY_SOL_AMOUNT) THEN IxFail(acc, "AmountTooSmall")
        ELSE IF ~(sol_amount <= MAX_BUY_SOL_AMOUNT) THEN IxFail(acc, "AmountTooLarge")
        ELSE IF fee_amount = None THEN IxFail(acc, "MathOverflow")
        ELSE IF sol_after_fee = None THEN IxFail(acc, "MathOverflow")
        ELSE IF tokens_to_mint = None THEN IxFail(acc, "MathOverflow")
        ELSE IF ~slippage_ok(tokens_to_mint, min_tokens_out)
        THEN IxFail(acc, "SlippageExceeded")
        ELSE IF ~(tokens_to_mint > 0) THEN IxFail(acc, "InvalidTokenAmount")
        ELSE IF new_total_supply = None THEN IxFail(acc, "MathOverflow")
        ELSE IF ~within_max_supply(new_total_supply, bc.max_supply)
        THEN IxFail(acc, "ExceedsMaxSupply")
        ELSE IF acc.buyer < sol_amount THEN IxFail(acc, "InsufficientFunds")
        ELSE IF sol_reserves = None THEN IxFail(acc, "MathOverflow")
        ELSE IF last_price = None THEN IxFail(acc, "MathOverflow")
        ELSE IF total_transactions = None THEN IxFail(acc, "MathOverflow")
        ELSE IF total_raised = None THEN IxFail(acc, "MathOverflow")
        ELSE IF holder_count = None THEN IxFail(acc, "MathOverflow")
        ELSE [ err |-> "Ok",
               acc |-> [ acc EXCEPT
                           !.bonding_curve = bc2,
                           !.token_launch = tl1,
                           !.buyer = @ - sol_amount,
                           !.curve_vault = @ + sol_after_fee,
                           !.fee_recipient = @ + fee_amount,
                           !.buyer_token_account = @ + tokens_to_mint ] ]

\* The accounts a buy can be called on: a flat price of 1.0, a price rising
\* with the supply, a supply next to the end of the word, a price of zero, and
\* a launch that is not active
IxLaunch(base_price, slope, current_supply, max_supply, is_active) ==
    [ bonding_curve |->
        [ base_price |-> base_price, slope |-> slope,
          current_supply |-> current_supply, max_supply |-> max_supply,
          migration_threshold |-> 150, sol_reserves |-> 0, last_price |-> 0,
          total_transactions |-> 0 ],
      token_launch |->
        [ is_active |-> is_active, migrated |-> FALSE, total_raised |-> 0,
          holder_count |-> 0, ready_for_migration |-> FALSE ],
      buyer |-> 2 * MAX_BUY_SOL_AMOUNT,
      curve_vault |-> 0,
      fee_recipient |-> 0,
      buyer_token_account |-> 0 ]

InitialLaunches ==
    { IxLaunch(SLOPE_SCALE, 0, 0, 250, TRUE),
      IxLaunch(SLOPE_SCALE \div 2, 2 * SLOPE_SCALE, 0, U64_MAX, TRUE),
      IxLaunch(SLOPE_SCALE, 0, U64_MAX - 50, U64_MAX, TRUE),
      IxLaunch(0, 0, 0, 250, TRUE),
      IxLaunch(SLOPE_SCALE, 0, 0, 250, FALSE) }

IxSolAmounts ==
    {0, MIN_BUY_SOL_AMOUNT - 1, MIN_BUY_SOL_AMOUNT, 150, MAX_BUY_SOL_AMOUNT,
     MAX_BUY_SOL_AMOUNT + 1}

IxMinTokensOut == {0, 99, 100, U64_MAX}

NoIxCall == [ op |-> "none", sol_amount |-> 0, min_tokens_out |-> 0,
              err |-> "Ok", pre |-> IxLaunch(0, 0, 0, 0, FALSE) ]

IxIdle ==
    /\ launch = IxLaunch(0, 0, 0, 0, FALSE)
    /\ ix = NoIxCall

IxInit ==
    /\ launch \in InitialLaunches
    /\ ix = NoIxCall

IxBuyTokens ==
    /\ launch.bonding_curve.total_transactions < MaxTransactions
    /\ \E sol_amount \in IxSolAmounts, min_tokens_out \in IxMinTokensOut :
         LET r == ix_buy_tokens(launch, sol_amount, min_tokens_out)
         IN  /\ launch' = r.acc
             /\ ix' = [ op |-> "buy_tokens", sol_amount |-> sol_amount,
                        min_tokens_out |-> min_tokens_out, err |-> r.err,
                        pre |-> launch ]
    /\ UNCHANGED << libVars, curveVars, posVars, utilVars, markets >>

-----------------------------------------------------------------------------
(* instructions/sell_tokens.rs: the sell quote, on the word of utils.rs with *)
(* k_constant two words wide                                                 *)

\* u64::checked_div
util_checked_div(a, b) == IF b = 0 THEN None ELSE a \div b

\* calculate_sell_price(virtual_token_reserves, virtual_sol_reserves,
\* token_amount, k_constant: u128) of instructions/sell_tokens.rs
ix_calculate_sell_price(virtual_token_reserves, virtual_sol_reserves, token_amount, k_constant) ==
    LET new_token_reserves == util_checked_add(virtual_token_reserves, token_amount)
        new_sol_reserves == util_checked_div(util_as_u64(k_constant),
                                             new_token_reserves)
        sol_amount == util_checked_sub(virtual_sol_reserves, new_sol_reserves)
        fee_scaled == util_checked_mul(sol_amount, 100)
        fee == util_checked_div(fee_scaled, 10000)
        net == util_checked_sub(sol_amount, fee)
    IN  IF new_token_reserves = None THEN [ err |-> "MathOverflow", val |-> 0 ]
        ELSE IF new_sol_reserves = None THEN [ err |-> "MathOverflow", val |-> 0 ]
        ELSE IF sol_amount = None THEN [ err |-> "MathOverflow", val |-> 0 ]
        ELSE IF fee_scaled = None THEN [ err |-> "MathOverflow", val |-> 0 ]
        ELSE IF fee = None THEN [ err |-> "MathOverflow", val |-> 0 ]
        ELSE IF net = None THEN [ err |-> "MathOverflow", val |-> 0 ]
        ELSE [ err |-> "Ok", val |-> net ]

\* The virtual reserves <<tokens, SOL>> of the curves quoted; k_constant is
\* their product, within one word for the first and beyond it for the others
SellPriceReserves == { << 1000, 30 >>, << 10730, 300 >>, << 32000, 300 >> }

SellPriceTokenAmounts == {0, 1, 500, 1000, UTIL_U64_MAX}

IxCalculateSellPrice ==
    /\ \E r \in SellPriceReserves, token_amount \in SellPriceTokenAmounts :
         util' = [ fn |-> "sell_tokens::calculate_sell_price",
                   a |-> token_amount, b |-> r[2], c |-> r[1],
                   k |-> r[1] * r[2],
                   out |-> ix_calculate_sell_price(r[1], r[2], token_amount,
                                                   r[1] * r[2]) ]
    /\ UNCHANGED << libVars, curveVars, posVars, ixVars, markets >>

-----------------------------------------------------------------------------
(* lib.rs: the curves of two mints under the one GlobalState account (the    *)
(* PDA of GLOBAL_STATE_SEED, passed to every create_token, buy_tokens and    *)
(* sell_tokens)                                                              *)

Mints == {"A", "B"}

\* The accounts of a mint's curve before create_token
NoMarket ==
    [ created |-> FALSE, bonding_curve |-> EmptyCurve, sol_vault |-> 0,
      token_vault |-> TOKEN_TOTAL_SUPPLY, user_tokens |-> [ u \in Users |-> 0 ] ]

MarketsIdle ==
    markets = [ accounts |-> [ m \in Mints |-> NoMarket ],
                global_state |-> [ is_paused |-> FALSE, total_volume |-> 0,
                                   total_tokens_created |-> 0 ],
                last |-> [ mint |-> "none", op |-> "none", err |-> "Ok" ] ]

\* The accounts an instruction on mint m is given
MarketAccounts(m) ==
    [ bonding_curve |-> markets.accounts[m].bonding_curve,
      global_state |-> markets.global_state,
      sol_vault |-> markets.accounts[m].sol_vault,
      token_vault |-> markets.accounts[m].token_vault,
      user_tokens |-> markets.accounts[m].user_tokens ]

\* The accounts as the instruction on mint m leaves them
MarketCommit(m, r, op, now_created) ==
    markets' = [ accounts |->
                   [ markets.accounts EXCEPT ![m] =
                       [ created |-> now_created,
                         bonding_curve |-> r.acc.bonding_curve,
                         sol_vault |-> r.acc.sol_vault,
                         token_vault |-> r.acc.token_vault,
                         user_tokens |-> r.acc.user_tokens ] ],
                 global_state |-> r.acc.global_state,
                 last |-> [ mint |-> m, op |-> op, err |-> r.err ] ]

MarketBuyAmounts == {0, 71, 99, 100}

MarketSellAmounts == {300000}

MarketCreateToken ==
    /\ \E m \in Mints, creator \in Users :
         /\ account_is_uninitialized(markets.accounts[m].created)
         /\ LET r == create_token(MarketAccounts(m), creator, <<32, 10, 200>>, 0, 0)
            IN  MarketCommit(m, r, "create_token", r.err = "Ok")
    /\ UNCHANGED << libVars, curveVars, posVars, utilVars, ixVars >>

MarketBuyTokens ==
    /\ markets.global_state.total_volume < MaxVolume
    /\ \E m \in Mints, buyer \in Users, sol_amount \in MarketBuyAmounts :
         /\ markets.accounts[m].created
         /\ MarketCommit(m, buy_tokens(MarketAccounts(m), buyer, sol_amount,
                                       U64_MAX, 0),
                         "buy_tokens", TRUE)
    /\ UNCHANGED << libVars, curveVars, posVars, utilVars, ixVars >>

MarketSellTokens ==
    /\ markets.global_state.total_volume < MaxVolume
    /\ \E m \in Mints, seller \in Users, token_amount \in MarketSellAmounts :
         /\ markets.accounts[m].created
         /\ MarketCommit(m, sell_tokens(MarketAccounts(m), seller, token_amount, 0),
                         "sell_tokens", TRUE)
    /\ UNCHANGED << libVars, curveVars, posVars, utilVars, ixVars >>

-----------------------------------------------------------------------------
(* Specifications *)

Init == LibInit /\ CurveIdle /\ PosIdle /\ UtilIdle /\ IxIdle /\ MarketsIdle

Next == CreateToken \/ BuyTokens \/ SellTokens \/ MigrateLiquidity

Spec == Init /\ [][Next]_vars

InitCurve == LibIdle /\ CurveInit /\ PosIdle /\ UtilIdle /\ IxIdle /\ MarketsIdle

NextCurve == QuotedBuy \/ QuotedSell \/ Tick

SpecCurve == InitCurve /\ [][NextCurve]_vars

InitFunding == LibIdle /\ FundingInit /\ PosIdle /\ UtilIdle /\ IxIdle /\ MarketsIdle

NextFunding == FundingBuy

\* Buys go on for as long as some buy succeeds
SpecFunding == InitFunding /\ [][NextFunding]_vars /\ WF_vars(FundingBuy)

InitPosition == LibIdle /\ CurveIdle /\ PosIdle /\ UtilIdle /\ IxIdle /\ MarketsIdle

NextPosition ==
    UpdateAfterBuy \/ UpdateAfterSell \/ CalculateUnrealizedProfit \/ Tick

SpecPosition == InitPosition /\ [][NextPosition]_vars

InitUtils == LibIdle /\ CurveIdle /\ PosIdle /\ UtilIdle /\ IxIdle /\ MarketsIdle

NextUtils ==
    \/ CalculateFee
    \/ SafeMulDiv
    \/ ValidateSlippage
    \/ CalculateSqrt
    \/ CalculateProgressPercentage
    \/ UtilsCalculateBuyPrice
    \/ UtilsCalculateSellPrice
    \/ IxCalculateSellPrice

SpecUtils == InitUtils /\ [][NextUtils]_vars

InitBuy == LibIdle /\ CurveIdle /\ PosIdle /\ UtilIdle /\ IxInit /\ MarketsIdle

NextBuy == IxBuyTokens

SpecBuy == InitBuy /\ [][NextBuy]_vars

InitMarkets == LibIdle /\ CurveIdle /\ PosIdle /\ UtilIdle /\ IxIdle /\ MarketsIdle

NextMarkets == MarketCreateToken \/ MarketBuyTokens \/ MarketSellTokens

SpecMarkets == InitMarkets /\ [][NextMarkets]_vars

-----------------------------------------------------------------------------
(* Claims about the program of lib.rs and the migration handler (Spec) *)

IsTrade(op) == op \in {"buy_tokens", "sell_tokens"}

\* C1, as claimed: a buy_tokens or sell_tokens call made while complete is true
\* fails with BondingCurveComplete and changes no field of the bonding curve.
C1_Original ==
    [][ (bonding_curve.complete /\ IsTrade(last'.op))
          => (last'.err = "BondingCurveComplete" /\ bonding_curve' = bonding_curve) ]_vars

\* C1, amended: a buy_tokens or sell_tokens call made while complete is true
\* fails and changes no field of the bonding curve; the error is
\* BondingCurveComplete when the amount is positive and InvalidAmount when it is 0
\* (the amount is checked first).
C1_CompleteRejectsTrades ==
    [][ (bonding_curve.complete /\ IsTrade(last'.op))
          => /\ bonding_curve' = bonding_curve
             /\ last'.amount > 0 => last'.err = "BondingCurveComplete"
             /\ last'.amount = 0 => last'.err = "InvalidAmount" ]_vars

C1_Witness ==
    /\ bonding_curve.complete
    /\ last.op = "sell_tokens"
    /\ last.amount > 0
    /\ last.err = "BondingCurveComplete"

\* C2: complete is true if and only if real_sol_reserves >= FUNDING_GOAL, and the
\* flag changes only in a successful buy that takes real_sol_reserves from below
\* FUNDING_GOAL to FUNDING_GOAL or above.
C2_CompleteIffGoal ==
    /\ [](bonding_curve.complete <=> bonding_curve.real_sol_reserves >= FUNDING_GOAL)
    /\ [][ (bonding_curve'.complete # bonding_curve.complete)
             => /\ bonding_curve'.complete
                /\ last'.op \in {"buy_tokens", "create_token"}
                /\ last'.err = "Ok"
                /\ bonding_curve.real_sol_reserves < FUNDING_GOAL
                /\ bonding_curve'.real_sol_reserves >= FUNDING_GOAL ]_vars

C2_Witness ==
    /\ bonding_curve.complete
    /\ last.op = "buy_tokens"
    /\ last.err = "Ok"
    /\ bonding_curve.real_sol_reserves >= FUNDING_GOAL

\* C3: the migration handler succeeds at most once: it fails with
\* CurveNotComplete on a curve that is not complete and with AlreadyMigrated on a
\* migrated curve, a success sets migrated, and migrated is never cleared, so
\* every call after a success fails with AlreadyMigrated.
C3_MigratesAtMostOnce ==
    /\ [][ (last'.op = "migrate_liquidity")
             => /\ ~bonding_curve.complete => last'.err = "CurveNotComplete"
                /\ bonding_curve.migrated => last'.err = "AlreadyMigrated"
                /\ last'.err = "Ok"
                     => (~bonding_curve.migrated /\ bonding_curve'.migrated) ]_vars
    /\ [][ bonding_curve.migrated => bonding_curve'.migrated ]_vars

C3_Witness ==
    /\ bonding_curve.migrated
    /\ last.op = "migrate_liquidity"
    /\ last.err = "AlreadyMigrated"

\* C4: in every reachable state, migrated = true implies complete = true.
C4_MigratedImpliesComplete == bonding_curve.migrated => bonding_curve.complete

C4_Witness ==
    /\ bonding_curve.migrated
    /\ last.op = "migrate_liquidity"
    /\ last.err = "Ok"

-----------------------------------------------------------------------------
(* Claims about the methods of state.rs BondingCurve (SpecCurve) *)

\* The quotes of the specification, over the mathematical integers
BuyFormula(S, T, sol_in) == T - ((S * T) \div (S + sol_in))

SellFormula(S, T, tokens_in) == S - ((S * T) \div (T + tokens_in))

PreS == EffSol(res.pre)

PreT == EffTok(res.pre)

BuyQuoted == res.op = "buy" /\ ~res.pre.complete

SellQuoted == res.op = "sell" /\ ~res.pre.complete

\* C5, as claimed: calculate_buy_price(sol_in) returns exactly
\* T - floor(S*T / (S + sol_in)) for every sol_in > 0 for which that value is
\* positive, InvalidAmount when sol_in = 0, InsufficientLiquidity when it is 0.
C5_Original ==
    BuyQuoted =>
        /\ res.arg = 0 => res.quote.err = "InvalidAmount"
        /\ (res.arg > 0 /\ BuyFormula(PreS, PreT, res.arg) > 0)
             => res.quote = [ err |-> "Ok", val |-> BuyFormula(PreS, PreT, res.arg) ]
        /\ (res.arg > 0 /\ BuyFormula(PreS, PreT, res.arg) = 0)
             => res.quote.err = "InsufficientLiquidity"

BuyFits == PreS <= U64_MAX /\ PreT <= U64_MAX /\ PreS + res.arg <= U64_MAX

\* C5, amended: as claimed when S, T and S + sol_in fit the 64-bit word; when
\* one of them does not, calculate_buy_price(sol_in) with sol_in > 0 fails with
\* MathOverflow.
C5_BuyQuoteExact ==
    BuyQuoted =>
        /\ res.arg = 0 => res.quote.err = "InvalidAmount"
        /\ (res.arg > 0 /\ ~BuyFits) => res.quote.err = "MathOverflow"
        /\ (res.arg > 0 /\ BuyFits /\ BuyFormula(PreS, PreT, res.arg) > 0)
             => res.quote = [ err |-> "Ok", val |-> BuyFormula(PreS, PreT, res.arg) ]
        /\ (res.arg > 0 /\ BuyFits /\ BuyFormula(PreS, PreT, res.arg) = 0)
             => res.quote.err = "InsufficientLiquidity"

C5_Witness ==
    /\ BuyQuoted
    /\ res.arg > 0
    /\ res.pre.real_sol_reserves > 0
    /\ res.quote.err = "Ok"
    /\ res.quote.val = BuyFormula(PreS, PreT, res.arg)

\* C6, as claimed: calculate_sell_price(tokens_in) returns exactly
\* S - floor(S*T / (T + tokens_in)) for every tokens_in > 0 for which that value
\* is positive, InvalidAmount when tokens_in = 0, InsufficientLiquidity when it is 0.
C6_Original ==
    SellQuoted =>
        /\ res.arg = 0 => res.quote.err = "InvalidAmount"
        /\ (res.arg > 0 /\ SellFormula(PreS, PreT, res.arg) > 0)
             => res.quote = [ err |-> "Ok", val |-> SellFormula(PreS, PreT, res.arg) ]
        /\ (res.arg > 0 /\ SellFormula(PreS, PreT, res.arg) = 0)
             => res.quote.err = "InsufficientLiquidity"

SellFits == PreS <= U64_MAX /\ PreT <= U64_MAX /\ PreT + res.arg <= U64_MAX

\* C6, amended: as claimed when S, T and T + tokens_in fit the 64-bit word; when
\* one of them does not, calculate_sell_price(tokens_in) with tokens_in > 0 fails
\* with MathOverflow.
C6_SellQuoteExact ==
    SellQuoted =>
        /\ res.arg = 0 => res.quote.err = "InvalidAmount"
        /\ (res.arg > 0 /\ ~SellFits) => res.quote.err = "MathOverflow"
        /\ (res.arg > 0 /\ SellFits /\ SellFormula(PreS, PreT, res.arg) > 0)
             => res.quote = [ err |-> "Ok", val |-> SellFormula(PreS, PreT, res.arg) ]
        /\ (res.arg > 0 /\ SellFits /\ SellFormula(PreS, PreT, res.arg) = 0)
             => res.quote.err = "InsufficientLiquidity"

C6_Witness ==
    /\ SellQuoted
    /\ res.arg > 0
    /\ res.pre.real_sol_reserves > 0
    /\ res.quote.err = "Ok"
    /\ res.quote.val = SellFormula(PreS, PreT, res.arg)

\* C7: rounding in the quotes favours the pool: a successful buy quote has
\* (S + sol_in) * (T - tokens_out) >= S*T and a successful sell quote has
\* (S - sol_out) * (T + tokens_in) >= S*T.
C7_RoundingFavoursPool ==
    /\ (BuyQuoted /\ res.quote.err = "Ok")
         => (PreS + res.arg) * (PreT - res.quote.val) >= PreS * PreT
    /\ (SellQuoted /\ res.quote.err = "Ok")
         => (PreS - res.quote.val) * (PreT + res.arg) >= PreS * PreT

\* C8: selling back exactly the tokens obtained from a buy never returns more
\* SOL than was paid: after a successful quoted buy of sol_in for tokens_out,
\* calculate_sell_price(tokens_out) on the resulting curve returns sol_out <= sol_in.
C8_SellBackNeverProfits ==
    (BuyQuoted /\ res.quote.err = "Ok" /\ res.upd = "Ok")
        => LET back == calculate_sell_price(curve, res.quote.val)
           IN  back.err = "Ok" => back.val <= res.arg

Abs(x) == IF x < 0 THEN 0 - x ELSE x

ProductDrift == Abs(EffSol(curve) * EffTok(curve) - PreS * PreT)

\* C9, as claimed: a quoted buy leaves the product of the effective reserves
\* equal to its value before the buy up to a difference of at most 1.
C9_Original ==
    (BuyQuoted /\ res.quote.err = "Ok" /\ res.upd = "Ok") => ProductDrift <= 1

\* C9, amended: a quoted buy leaves the product of the effective reserves equal
\* to its value before the buy up to a difference smaller than S + sol_in, the
\* effective SOL reserve after the buy (the new token reserve is rounded by
\* less than one unit).
C9_ProductWithinOneTokenUnit ==
    (BuyQuoted /\ res.quote.err = "Ok" /\ res.upd = "Ok")
        => ProductDrift < PreS + res.arg

C9_Witness ==
    /\ BuyQuoted
    /\ res.quote.err = "Ok"
    /\ res.upd = "Ok"
    /\ ProductDrift > 1

TradeDone(op) == res.op = op /\ res.quote.err = "Ok" /\ res.upd = "Ok"

C11_UpdateAllOrNothing ==
    (res.op \in {"buy", "sell"} /\ res.quote.err = "Ok" /\ res.upd # "Ok")
        => curve = res.pre

-----------------------------------------------------------------------------
(* Claims about the methods of state.rs UserPosition (SpecPosition) *)

PosBuy == pos_res.op = "update_after_buy"

PosSell == pos_res.op = "update_after_sell"

PosMark == pos_res.op = "calculate_unrealized_profit"

\* C12: update_after_sell called with token_amount > token_balance fails with
\* InsufficientBalance and leaves every field of the UserPosition unchanged.
C12_OversellLeavesPositionUnchanged ==
    (PosSell /\ pos_res.token_amount > pos_res.pre.token_balance)
        => (pos_res.err = "InsufficientBalance" /\ position = pos_res.pre)

\* C13: after any sequence of update_after_buy and update_after_sell calls,
\* successful or failed, on a position that starts with all counters zero,
\* token_balance = tokens_bought - tokens_sold.
C13_BalanceIsBoughtMinusSold ==
    position.token_balance = position.tokens_bought - position.tokens_sold

\* C14: after every successful update_after_buy(sol_amount, token_amount),
\* sol_invested and tokens_bought have grown by sol_amount and token_amount,
\* average_buy_price = floor(sol_invested * 10^9 / tokens_bought) over the new
\* sums, and token_balance has grown by token_amount.
C14_BuyAveragesCost ==
    (PosBuy /\ pos_res.err = "Ok") =>
        /\ position.sol_invested = pos_res.pre.sol_invested + pos_res.sol_amount
        /\ position.tokens_bought = pos_res.pre.tokens_bought + pos_res.token_amount
        /\ position.average_buy_price =
             ((pos_res.pre.sol_invested + pos_res.sol_amount) * PRICE_SCALE)
                 \div (pos_res.pre.tokens_bought + pos_res.token_amount)
        /\ position.token_balance = pos_res.pre.token_balance + pos_res.token_amount

C14_Witness ==
    /\ PosBuy
    /\ pos_res.err = "Ok"
    /\ pos_res.pre.tokens_bought > 0
    /\ pos_res.pre.sol_invested > 0
    /\ pos_res.sol_amount > 0
    /\ position.average_buy_price > 0
    /\ position.average_buy_price # pos_res.pre.average_buy_price

\* C15: every update_after_sell call leaves average_buy_price, sol_invested,
\* tokens_bought and first_buy_timestamp unchanged, and a successful
\* update_after_sell of the token_amount of the update_after_buy made just before
\* it returns token_balance to its value before that buy.
C15_SellKeepsCostBasis ==
    /\ PosSell =>
         /\ position.average_buy_price = pos_res.pre.average_buy_price
         /\ position.sol_invested = pos_res.pre.sol_invested
         /\ position.tokens_bought = pos_res.pre.tokens_bought
         /\ position.first_buy_timestamp = pos_res.pre.first_buy_timestamp
    /\ ( /\ PosSell
         /\ pos_res.err = "Ok"
         /\ pos_res.prev[1] = "update_after_buy"
         /\ pos_res.prev[2] = pos_res.token_amount
         /\ pos_res.prev[3] = "Ok" )
         => position.token_balance = pos_res.prev[4]

C15_Witness ==
    /\ PosSell
    /\ pos_res.err = "Ok"
    /\ pos_res.token_amount > 0
    /\ pos_res.prev = << "update_after_buy", pos_res.token_amount, "Ok",
                         position.token_balance >>
    /\ position.average_buy_price > 0

\* C16: after every successful update_after_sell(sol_amount, token_amount),
\* realized_profit has changed by exactly
\* sol_amount - floor(average_buy_price * token_amount / 10^9) as a signed
\* integer, and a call whose sol_amount does not fit the signed word fails
\* instead of storing a wrapped value.
C16_RealizedProfitExact ==
    /\ (PosSell /\ pos_res.err = "Ok")
         => position.realized_profit - pos_res.pre.realized_profit =
              pos_res.sol_amount -
                ((pos_res.pre.average_buy_price * pos_res.token_amount)
                    \div PRICE_SCALE)
    /\ (PosSell /\ pos_res.sol_amount > I64_MAX) => pos_res.err # "Ok"

\* C17: calculate_unrealized_profit sets unrealized_profit to 0 when
\* token_balance = 0 and, for every input, changes no field other than
\* unrealized_profit.
C17_MarkToMarketFrame ==
    PosMark =>
        /\ pos_res.pre.token_balance = 0
             => (pos_res.err = "Ok" /\ position.unrealized_profit = 0)
        /\ [ position EXCEPT !.unrealized_profit = 0 ] =
             [ pos_res.pre EXCEPT !.unrealized_profit = 0 ]

C17_Witness ==
    /\ PosMark
    /\ pos_res.err = "Ok"
    /\ pos_res.pre.token_balance = 0
    /\ pos_res.pre.realized_profit # 0
    /\ position.unrealized_profit = 0

-----------------------------------------------------------------------------
(* Claims about the fees of lib.rs (Spec) and the functions of utils.rs     *)
(* (SpecUtils)                                                              *)

\* C18: in a buy_tokens or sell_tokens call that does not fail, with gross the
\* SOL amount the fees are taken from, creator_fee = platform_fee =
\* floor(gross * 100 / 10000), their sum is at most gross, and the net amount
\* moved through the vault is gross - creator_fee - platform_fee; a gross of
\* 1_000_000 gives 10_000, 10_000 and 980_000.
C18_FeeSplit ==
    /\ fee_of(1000000, CREATOR_FEE_BASIS_POINTS) = 10000
    /\ fee_of(1000000, PLATFORM_FEE_BASIS_POINTS) = 10000
    /\ net_of(1000000, 10000, 10000) = 980000
    /\ [][ (last'.err = "Ok" /\ last'.op \in {"buy_tokens", "create_token", "sell_tokens"})
             => LET buy == last'.op # "sell_tokens"
                    gross == IF buy THEN last'.amount
                             ELSE bonding_curve.real_sol_reserves
                                    - bonding_curve'.real_sol_reserves
                    net == IF buy THEN sol_vault' - sol_vault
                           ELSE sol_vault - sol_vault'
                    fee == (gross * 100) \div 10000
                IN  /\ fee + fee <= gross
                    /\ net = gross - fee - fee
                    /\ net >= 0
                    /\ buy => bonding_curve'.real_sol_reserves
                                - bonding_curve.real_sol_reserves = net ]_vars

C18_Witness ==
    /\ last.op = "buy_tokens"
    /\ last.err = "Ok"
    /\ last.amount >= 100
    /\ sol_vault > 0
    /\ sol_vault < global_state.total_volume

\* C19: calculate_fee(amount, bps) returns exactly floor(amount * bps / 10000),
\* or fails with MathOverflow when that value does not fit the u64 word; it
\* never returns a truncated value, and it returns 0 when bps = 0.
C19_FeeExactOrOverflow ==
    util.fn = "calculate_fee" =>
        LET exact == (util.a * util.b) \div 10000
        IN  /\ exact <= UTIL_U64_MAX => util.out = [ err |-> "Ok", val |-> exact ]
            /\ exact > UTIL_U64_MAX => util.out.err = "MathOverflow"
            /\ util.b = 0 => util.out = [ err |-> "Ok", val |-> 0 ]

\* C20: safe_mul_div(a, b, c) fails with DivisionByZero whenever c = 0;
\* otherwise it returns exactly floor(a*b/c) when that value fits the u64 word
\* and fails with MathOverflow when it does not, a = b = u64::MAX included.
C20_MulDivExact ==
    util.fn = "safe_mul_div" =>
        /\ util.c = 0 => util.out.err = "DivisionByZero"
        /\ (util.c > 0 /\ (util.a * util.b) \div util.c <= UTIL_U64_MAX)
             => util.out = [ err |-> "Ok", val |-> (util.a * util.b) \div util.c ]
        /\ (util.c > 0 /\ (util.a * util.b) \div util.c > UTIL_U64_MAX)
             => util.out.err = "MathOverflow"

C20_Witness ==
    /\ util.fn = "safe_mul_div"
    /\ util.a = UTIL_U64_MAX
    /\ util.b = UTIL_U64_MAX
    /\ util.c = UTIL_U64_MAX
    /\ util.out = [ err |-> "Ok", val |-> UTIL_U64_MAX ]

\* C21: calculate_sqrt(v) terminates and returns the floor square root r
\* (r*r <= v < (r+1)*(r+1)) for every v of the u64 range, 0 and the maximum
\* included, with no addition overflowing and no division by zero.
C21_SqrtIsFloorRoot ==
    util.fn = "calculate_sqrt" =>
        /\ util.out.err = "Ok"
        /\ util.out.val * util.out.val <= util.a
        /\ util.a < (util.out.val + 1) * (util.out.val + 1)

\* C27: for every slippage_bps <= 10000, validate_slippage(expected, actual,
\* slippage_bps) returns Ok exactly when
\* actual >= expected - floor(expected * slippage_bps / 10000) and fails with
\* SlippageExceeded otherwise.
C27_SlippageThreshold ==
    (util.fn = "validate_slippage" /\ util.c <= 10000) =>
        LET min_amount == util.a - ((util.a * util.c) \div 10000)
        IN  /\ util.b >= min_amount => util.out.err = "Ok"
            /\ util.b < min_amount => util.out.err = "SlippageExceeded"

C27_Witness ==
    /\ util.fn = "validate_slippage"
    /\ util.a = 10000
    /\ util.c = 200
    /\ util.b = 9800
    /\ util.out.err = "Ok"

\* C28: calculate_progress_percentage(current, target) returns
\* min(floor(current * 10000 / target), 10000) for every current and every
\* target > 0, hence 10000 whenever current >= target, and 0 when target = 0.
C28_ProgressIsCappedRatio ==
    util.fn = "calculate_progress_percentage" =>
        /\ util.b = 0 => util.out.val = 0
        /\ util.b > 0 => util.out.val = Min((util.a * 10000) \div util.b, 10000)
        /\ (util.b > 0 /\ util.a >= util.b) => util.out.val = 10000

\* C29: on the default BondingCurveState, calculate_buy_price(token_amount) and
\* calculate_sell_price(token_amount) return Ok with a strictly positive SOL
\* amount for the token_amount of the unit tests (one token, 100 on the scale
\* of the model), the product of the reserves being computed without overflow.
C29_DefaultCurveQuotes ==
    ( /\ util.fn \in { "BondingCurveState::calculate_buy_price",
                       "BondingCurveState::calculate_sell_price" }
      /\ util.b = BondingCurveState_default.virtual_sol_reserves
      /\ util.c = BondingCurveState_default.virtual_token_reserves
      /\ util.a = 100 )
        => (util.out.err = "Ok" /\ util.out.val > 0)

-----------------------------------------------------------------------------
(* Claims about instructions/buy_tokens.rs (SpecBuy) *)

IxBuy == ix.op = "buy_tokens"

\* tokens_to_mint as the last call computed it from the accounts it found
IxTokensToMint ==
    calculate_tokens_out(ix.pre.bonding_curve,
                         ix.sol_amount - ((ix.sol_amount * 100) \div 10000))

\* The last call passed the account constraints and the checks on sol_amount
\* and computed tokens_to_mint
IxQuoted ==
    /\ IxBuy
    /\ ix.pre.token_launch.is_active
    /\ ~ix.pre.token_launch.migrated
    /\ ix.sol_amount >= MIN_BUY_SOL_AMOUNT
    /\ ix.sol_amount <= MAX_BUY_SOL_AMOUNT
    /\ IxTokensToMint # None

IxDelivered == launch.buyer_token_account - ix.pre.buyer_token_account

\* C22: every successful buy_tokens(sol_amount, min_tokens_out) delivers
\* tokens_to_mint >= min_tokens_out; when the computed tokens_to_mint is below
\* min_tokens_out the call fails with SlippageExceeded and no account has
\* changed.
C22_BuySlippageEnforced ==
    /\ (IxBuy /\ ix.err = "Ok")
         => (IxDelivered = IxTokensToMint /\ IxDelivered >= ix.min_tokens_out)
    /\ (IxQuoted /\ IxTokensToMint < ix.min_tokens_out)
         => (ix.err = "SlippageExceeded" /\ launch = ix.pre)

C22_Witness ==
    /\ IxBuy
    /\ ix.err = "Ok"
    /\ ix.min_tokens_out > 0
    /\ IxDelivered = ix.min_tokens_out

\* The last call passed every check before the supply cap and its tokens would
\* take current_supply above max_supply
IxWouldExceed ==
    /\ IxQuoted
    /\ IxTokensToMint >= ix.min_tokens_out
    /\ IxTokensToMint > 0
    /\ ix.pre.bonding_curve.current_supply + IxTokensToMint
         > ix.pre.bonding_curve.max_supply

IxSupplyAndReservesKept ==
    /\ launch.bonding_curve.current_supply = ix.pre.bonding_curve.current_supply
    /\ launch.bonding_curve.sol_reserves = ix.pre.bonding_curve.sol_reserves

\* C25 as stated: current_supply <= max_supply after any sequence of buys, and
\* a buy that would exceed max_supply fails with ExceedsMaxSupply and leaves
\* current_supply and sol_reserves unchanged.
C25_Original ==
    /\ launch.bonding_curve.current_supply <= launch.bonding_curve.max_supply
    /\ IxWouldExceed => (ix.err = "ExceedsMaxSupply" /\ IxSupplyAndReservesKept)

\* C25: current_supply <= max_supply after any sequence of buys; a buy that
\* would exceed max_supply fails and leaves current_supply and sol_reserves
\* unchanged, with ExceedsMaxSupply when current_supply + tokens_to_mint fits
\* the u64 word and with MathOverflow when it does not.
C25_SupplyNeverExceedsMax ==
    /\ launch.bonding_curve.current_supply <= launch.bonding_curve.max_supply
    /\ IxWouldExceed =>
         /\ ix.err = IF ix.pre.bonding_curve.current_supply + IxTokensToMint > U64_MAX
                     THEN "MathOverflow" ELSE "ExceedsMaxSupply"
         /\ IxSupplyAndReservesKept

C25_Witness ==
    /\ IxWouldExceed
    /\ ix.err = "ExceedsMaxSupply"
    /\ ix.pre.bonding_curve.current_supply > 0
    /\ ix.pre.bonding_curve.total_transactions > 0

-----------------------------------------------------------------------------
(* Further claims about lib.rs and the migration handler (Spec) and about   *)
(* state.rs BondingCurve (SpecCurve)                                        *)

\* C23: every successful sell_tokens(token_amount, min_sol_output) pays the
\* seller a net amount, after the creator and platform fees, of at least
\* min_sol_output.
C23_SellNetAtLeastMin ==
    [][ (last'.op = "sell_tokens" /\ last'.err = "Ok")
          => sol_vault - sol_vault' >= last'.limit ]_vars

\* C24: in buy_tokens the fee is removed from the input before the swap: the
\* SOL amount from which token_amount is computed equals the SOL amount added
\* to virtual_sol_reserves and real_sol_reserves, sol_amount - creator_fee -
\* platform_fee.
C24_FeeRemovedBeforeSwap ==
    [][ (last'.op = "buy_tokens" /\ last'.err = "Ok")
          => LET net == last'.amount - 2 * ((last'.amount * 100) \div 10000)
                 tokens == token_vault - token_vault'
             IN  /\ bonding_curve'.real_sol_reserves
                      - bonding_curve.real_sol_reserves = net
                 /\ bonding_curve'.virtual_sol_reserves
                      - bonding_curve.virtual_sol_reserves = net
                 /\ tokens = calculate_buy_amount(net,
                                bonding_curve.virtual_sol_reserves,
                                bonding_curve.virtual_token_reserves).val ]_vars

C30_KConstantTracksProduct ==
    (TradeDone("buy") \/ TradeDone("sell"))
        => curve.k_constant = EffSol(curve) * EffTok(curve)

-----------------------------------------------------------------------------
(* Frame of the reserve updates of state.rs *)

\* The fields of a curve value that the reserve updates may assign, blanked
Unassigned(c) ==
    [ c EXCEPT !.real_sol_reserves = 0, !.real_token_reserves = 0,
               !.sol_reserves = 0, !.token_reserves = 0,
               !.last_price = 0, !.updated_at = 0 ]

\* C36: update_reserves_after_buy and update_reserves_after_sell never change
\* virtual_sol_reserves, virtual_token_reserves, total_supply, the initial_*
\* fields or complete, whether they succeed or fail; when they succeed they
\* change no field other than real_sol_reserves, real_token_reserves,
\* sol_reserves, token_reserves, last_price and updated_at, and they leave
\* sol_reserves = virtual_sol_reserves + real_sol_reserves and
\* token_reserves = virtual_token_reserves + real_token_reserves.
C36_UpdateFrame ==
    (res.op \in {"buy", "sell"} /\ res.quote.err = "Ok")
        => /\ curve.virtual_sol_reserves = res.pre.virtual_sol_reserves
           /\ curve.virtual_token_reserves = res.pre.virtual_token_reserves
           /\ curve.total_supply = res.pre.total_supply
           /\ curve.initial_virtual_sol_reserves
                 = res.pre.initial_virtual_sol_reserves
           /\ curve.initial_virtual_token_reserves
                 = res.pre.initial_virtual_token_reserves
           /\ curve.initial_real_token_reserves
                 = res.pre.initial_real_token_reserves
           /\ curve.complete = res.pre.complete
           /\ res.upd = "Ok"
                => /\ Unassigned(curve) = Unassigned(res.pre)
                   /\ curve.sol_reserves
                         = curve.virtual_sol_reserves + curve.real_sol_reserves
                   /\ curve.token_reserves
                         = curve.virtual_token_reserves + curve.real_token_reserves

C36_Witness ==
    /\ TradeDone("sell")
    /\ res.prev[1] = "buy"
    /\ res.prev[3] = "Ok"
    /\ curve.real_sol_reserves # res.pre.real_sol_reserves
    /\ curve.sol_reserves # res.pre.sol_reserves
    /\ curve.token_reserves # res.pre.token_reserves

-----------------------------------------------------------------------------
(* Accounting of lib.rs between create_token and the migration *)

\* The curve exists and only buy_tokens and sell_tokens have moved its funds
Trading == created /\ ~bonding_curve.migrated

\* The lamports of sol_vault from trades beyond real_sol_reserves
VaultSurplus == sol_vault - bonding_curve.real_sol_reserves

\* The creator and platform fees of a sell whose gross output is sol_amount
SellFees(sol_amount) ==
    fee_of(sol_amount, CREATOR_FEE_BASIS_POINTS)
        + fee_of(sol_amount, PLATFORM_FEE_BASIS_POINTS)

\* C37: in every state reached from create_token by buy_tokens and sell_tokens
\* calls, sol_vault holds at least real_sol_reserves lamports from trades, so a
\* complete curve's vault holds at least FUNDING_GOAL; the surplus of the vault
\* over real_sol_reserves is unchanged by every buy and every failed call, and
\* grows by exactly the creator and platform fees of every successful sell.
C37_VaultCoversRealSol ==
    /\ [](Trading => /\ sol_vault >= bonding_curve.real_sol_reserves
                     /\ bonding_curve.complete => sol_vault >= FUNDING_GOAL)
    /\ [][ (Trading /\ last'.op \in {"buy_tokens", "sell_tokens"})
             => VaultSurplus' - VaultSurplus
                  = IF last'.op = "sell_tokens" /\ last'.err = "Ok"
                    THEN SellFees(bonding_curve.real_sol_reserves
                                     - bonding_curve'.real_sol_reserves)
                    ELSE 0 ]_vars

C37_Witness ==
    /\ Trading
    /\ last.op = "sell_tokens"
    /\ last.err = "Ok"
    /\ VaultSurplus = 2
    /\ bonding_curve.real_sol_reserves > 0
    /\ sol_vault > bonding_curve.real_sol_reserves

\* C38: in every state reached from create_token by buy_tokens and sell_tokens
\* calls, virtual_sol_reserves - real_sol_reserves = INITIAL_VIRTUAL_SOL_RESERVES
\* and virtual_token_reserves - real_token_reserves =
\* INITIAL_VIRTUAL_TOKEN_RESERVES - INITIAL_REAL_TOKEN_RESERVES.
C38_VirtualAndRealMoveTogether ==
    created
        => /\ bonding_curve.virtual_sol_reserves - bonding_curve.real_sol_reserves
                = INITIAL_VIRTUAL_SOL_RESERVES
           /\ bonding_curve.virtual_token_reserves
                - bonding_curve.real_token_reserves
                = INITIAL_VIRTUAL_TOKEN_RESERVES - INITIAL_REAL_TOKEN_RESERVES

C38_Witness ==
    /\ created
    /\ last.op = "sell_tokens"
    /\ last.err = "Ok"
    /\ bonding_curve.real_sol_reserves > 0
    /\ bonding_curve.real_token_reserves < INITIAL_REAL_TOKEN_RESERVES
    /\ VaultSurplus > 0

\* The tokens users hold: those sent to them by buys less those returned by sells
TokensHeld == user_tokens["u1"] + user_tokens["u2"]

\* C39: in every state reached from create_token by buy_tokens and sell_tokens
\* calls, real_token_reserves plus the tokens sent to users by buys less the
\* tokens returned by sells equals INITIAL_REAL_TOKEN_RESERVES, and
\* real_token_reserves never exceeds INITIAL_REAL_TOKEN_RESERVES.
C39_TokensConserved ==
    created
        => /\ bonding_curve.real_token_reserves + TokensHeld
                = INITIAL_REAL_TOKEN_RESERVES
           /\ bonding_curve.real_token_reserves <= INITIAL_REAL_TOKEN_RESERVES

C39_Witness ==
    /\ created
    /\ user_tokens["u1"] > 0
    /\ user_tokens["u2"] > 0
    /\ last.op = "sell_tokens"
    /\ last.err = "Ok"
    /\ bonding_curve.real_token_reserves < INITIAL_REAL_TOKEN_RESERVES

-----------------------------------------------------------------------------
(* Bookkeeping of UserPosition across calls *)

\* C40, as claimed: trade_count equals the number of update_after_buy and
\* update_after_sell calls that returned Ok, and first_buy_timestamp equals the
\* clock value of the first successful buy. In particular: when an
\* update_after_buy call returns Ok on a position whose trade_count is 0 (no
\* call has returned Ok before it), trade_count becomes 1 and first_buy_timestamp
\* equals the clock value of that call, which the call also stores in
\* last_trade_timestamp.
C40_FirstBuyTimestampOfFirstOkBuy ==
    (PosBuy /\ pos_res.err = "Ok" /\ pos_res.pre.trade_count = 0)
        => /\ position.trade_count = 1
           /\ position.first_buy_timestamp = position.last_trade_timestamp

-----------------------------------------------------------------------------
(* Width of the price computation of state.rs *)

\* A quoted buy whose reserve assignments all pass, so that
\* update_reserves_after_buy reaches the computation of last_price
BuyReachesPrice ==
    /\ res.op = "buy"
    /\ res.quote.err = "Ok"
    /\ checked_add(res.pre.real_sol_reserves, res.arg) # None
    /\ checked_sub(res.pre.real_token_reserves, res.quote.val) # None
    /\ checked_add(res.pre.virtual_sol_reserves,
                   res.pre.real_sol_reserves + res.arg) # None
    /\ checked_add(res.pre.virtual_token_reserves,
                   res.pre.real_token_reserves - res.quote.val) # None

\* C34, as claimed: update_reserves_after_buy does not fail when
\* sol_amount * 10^9 exceeds the 64-bit range while the quotient
\* sol_amount * 10^9 / token_amount fits in 64 bits (here: token_amount is at
\* least sol_amount, so the quotient is at most 10^9).
C34_PriceProductWidened ==
    (/\ BuyReachesPrice
     /\ res.arg > U64_MAX \div PRICE_SCALE
     /\ res.quote.val >= res.arg)
        => res.upd = "Ok"

-----------------------------------------------------------------------------
(* Buys after the migration threshold in instructions/buy_tokens.rs *)

\* C33, as claimed: once a buy has set token_launch.ready_for_migration, the
\* flag is never cleared and no later buy_tokens call on that launch succeeds.
C33_NoBuyOnceReadyForMigration ==
    (IxBuy /\ ix.pre.token_launch.ready_for_migration)
        => /\ launch.token_launch.ready_for_migration
           /\ ix.err # "Ok"

-----------------------------------------------------------------------------
(* The sell quote of instructions/sell_tokens.rs *)

IxSellQuoted == util.fn = "sell_tokens::calculate_sell_price"

\* floor(k_constant / (virtual_token_reserves + token_amount)) on the full
\* value of k_constant
FullNewSolReserves == util.k \div (util.c + util.a)

\* C35, as claimed: calculate_sell_price of instructions/sell_tokens.rs divides
\* the full two-word value of k_constant by virtual_token_reserves +
\* token_amount; it fails with MathOverflow when k_constant or that quotient
\* does not fit in one word, and a value it returns is the gross output
\* virtual_sol_reserves - quotient less floor(gross * 100 / 10000).
C35_SellPriceUsesFullK ==
    (IxSellQuoted /\ util.c + util.a <= UTIL_U64_MAX)
        => /\ (util.k > UTIL_U64_MAX \/ FullNewSolReserves > UTIL_U64_MAX)
                => util.out.err = "MathOverflow"
           /\ util.out.err = "Ok"
                => LET gross == util.b - FullNewSolReserves
                   IN  util.out.val = gross - (gross * 100) \div 10000

-----------------------------------------------------------------------------
(* Reaching the funding goal with the trades of state.rs *)

\* C32, as claimed: from the launch curve a sequence of successful buys, each
\* quoted by calculate_buy_price on the effective reserves and applied by
\* update_reserves_after_buy, reaches real_sol_reserves >= FUNDING_GOAL: a run
\* of buys that goes on for as long as some buy succeeds eventually meets the
\* funding goal.
C32_FundingGoalReachable == <>(curve.real_sol_reserves >= FUNDING_GOAL)

\* C32, what holds instead: no sequence of successful buys from the launch
\* curve meets the funding goal; real_token_reserves runs out first.
C32_FundingGoalNeverMet == curve.real_sol_reserves < FUNDING_GOAL

-----------------------------------------------------------------------------
(* Independence of the curves of lib.rs *)

\* C31, as claimed: a buy_tokens or sell_tokens on one curve leaves unchanged
\* every account that a buy_tokens or sell_tokens on a different curve reads or
\* writes: that curve's bonding_curve, vaults and token accounts, and the
\* GlobalState account whose is_paused it reads and whose total_volume it
\* reads and writes.
C31_CurvesShareNoState ==
    [][ \A m \in Mints :
          (/\ markets'.last.op \in {"buy_tokens", "sell_tokens"}
           /\ markets'.last.mint # m)
             => /\ markets'.accounts[m] = markets.accounts[m]
                /\ markets'.global_state = markets.global_state ]_vars

=============================================================================
